---- MODULE Spec2Model ----
(***************************************************************************)
(* Model acquisition pipelines of the ComfyUI model download CLI:          *)
(* huggingface_integration.py, civitai_integration.py,                     *)
(* download_models_advanced.py and download_models.py, and the exit status *)
(* and wait_for_completion of the workflow testers.                        *)
(*                                                                         *)
(* Strings are sequences of one-character strings, so that substring       *)
(* tests, lowercasing, basename and the segment regular expression are     *)
(* computed character by character, as the Python code computes them.      *)
(***************************************************************************)
EXTENDS Integers, Sequences, FiniteSets, TLC

VARIABLES
    source,          \* the pipeline of the request: "hf" | "civitai" | "advanced" | "none"
    req,             \* the request and what the remote / the environment answers
    pc,              \* position of the request
    model_dir,       \* base directory root chosen by download_model
    segmented_models,\* groups still to download (head = current group)
    seg_pos,         \* index of the next member of the current group
    downloaded_files,\* download_segmented_model: destinations downloaded so far
    model_files,     \* direct path: the files selected for download
    file_pos,        \* direct path: index of the next file
    success,         \* download_model's running aggregate
    downloaded_main_model, \* direct path: metadata already saved
    attempts,        \* every download_file call, in order: [file, dest, ok]
    group_results,   \* result of each download_segmented_model call, in order
    disk,            \* the files on disk: set of [path, content]
    sidecars,        \* every save of provenance metadata, in order: [artifact, written]
    result,          \* what the request returned: "pending" | "ok" | "failed"
    error,           \* the error logged by the step that ended the request early
    call,            \* a call of a pure function: its name and arguments
    ret,             \* what that call returned
    api_calls,       \* the lookups made at the remote service, in order
    success_count,   \* batch_download: the entries counted as successful
    entry_results,   \* batch_download: what each processed entry returned, in order
    exit_code,       \* the exit status of the command, None while it runs
    elapsed,         \* wait_for_completion: time.time() - start_time, in seconds
    polls            \* wait_for_completion: what each poll answered, in order

vars == <<source, req, pc, model_dir, segmented_models, seg_pos, downloaded_files,
          model_files, file_pos, success, downloaded_main_model, attempts,
          group_results, disk, sidecars, result, error, call, ret, api_calls,
          success_count, entry_results, exit_code, elapsed, polls>>

\* the variables of a download request
request_vars ==
    <<source, req, model_dir, segmented_models, seg_pos, downloaded_files,
      model_files, file_pos, success, downloaded_main_model, attempts,
      group_results, disk, sidecars, result, error, api_calls>>

\* the variables of a command of the command line
cli_vars == <<success_count, entry_results, exit_code>>

\* the variables of a wait for a workflow
wait_vars == <<elapsed, polls>>

----------------------------------------------------------------------------
(* Bounds of the model *)

\* longest repository listing / version file list explored
MaxFiles == 3

\* the most words a classified file name is made of
MaxWords == 2

----------------------------------------------------------------------------
(* Characters and strings *)

UpperCase == <<"A","B","C","D","E","F","G","H","I","J","K","L","M",
               "N","O","P","Q","R","S","T","U","V","W","X","Y","Z">>
LowerCase == <<"a","b","c","d","e","f","g","h","i","j","k","l","m",
               "n","o","p","q","r","s","t","u","v","w","x","y","z">>
Digits == <<"0","1","2","3","4","5","6","7","8","9">>

\* str.lower() of one character
lower_char(c) ==
    IF \E i \in 1..Len(UpperCase) : UpperCase[i] = c
    THEN LowerCase[CHOOSE i \in 1..Len(UpperCase) : UpperCase[i] = c]
    ELSE c

\* str.lower()
lower(s) == [i \in 1..Len(s) |-> lower_char(s[i])]

\* Python's  k in s  for strings
contains(s, k) ==
    \E i \in 1..(Len(s) - Len(k) + 1) : SubSeq(s, i, i + Len(k) - 1) = k

\* str.endswith
endswith(s, suf) ==
    /\ Len(suf) <= Len(s)
    /\ SubSeq(s, Len(s) - Len(suf) + 1, Len(s)) = suf

\* any(pattern in s for pattern in patterns)
any_in(s, patterns) == \E k \in patterns : contains(s, k)

is_digit(c) == \E i \in 1..Len(Digits) : Digits[i] = c
digit_value(c) == (CHOOSE i \in 1..Len(Digits) : Digits[i] = c) - 1

\* int() of a string of decimal digits
RECURSIVE int(_)
int(s) ==
    IF s = <<>> THEN 0
    ELSE 10 * int(SubSeq(s, 1, Len(s) - 1)) + digit_value(s[Len(s)])

\* positions of character c in s
positions(s, c) == {i \in 1..Len(s) : s[i] = c}

Max(S) == CHOOSE x \in S : \A y \in S : y <= x

\* os.path.basename: what follows the last "/"
basename(s) ==
    IF positions(s, "/") = {} THEN s
    ELSE SubSeq(s, Max(positions(s, "/")) + 1, Len(s))

\* s.split('/')[-1]
last_component(s) == basename(s)

----------------------------------------------------------------------------
(* Keywords and extensions of the source, spelled out *)

K_vae == <<"v","a","e">>
K_autoencoder == <<"a","u","t","o","e","n","c","o","d","e","r">>
K_vae_dir == <<"/","v","a","e","/">>
K_lora == <<"l","o","r","a">>
K_loras == <<"l","o","r","a","s">>
K_lora_dir == <<"/","l","o","r","a","/">>
K_text_encoder == <<"t","e","x","t","_","e","n","c","o","d","e","r">>
K_text_encoders == <<"t","e","x","t","_","e","n","c","o","d","e","r","s">>
K_text_encoder_dir == <<"/","t","e","x","t","_","e","n","c","o","d","e","r">>
K_unet == <<"u","n","e","t">>
K_diffusion_pytorch_model == <<"d","i","f","f","u","s","i","o","n","_","p","y","t","o","r","c","h","_","m","o","d","e","l">>
K_unet_dir == <<"/","u","n","e","t","/">>
K_config == <<"c","o","n","f","i","g">>
K_preprocessor == <<"p","r","e","p","r","o","c","e","s","s","o","r">>
K_tokenizer == <<"t","o","k","e","n","i","z","e","r">>
K_scheduler == <<"s","c","h","e","d","u","l","e","r">>
K_model_index == <<"m","o","d","e","l","_","i","n","d","e","x">>
X_safetensors == <<".","s","a","f","e","t","e","n","s","o","r","s">>
X_ckpt == <<".","c","k","p","t">>
X_pt == <<".","p","t">>
X_pt2 == <<".","p","t","2">>
X_bin == <<".","b","i","n">>
X_pth == <<".","p","t","h">>
X_pkl == <<".","p","k","l">>
X_sft == <<".","s","f","t">>
X_yaml == <<".","y","a","m","l">>
X_json == <<".","j","s","o","n">>
K_of == <<"-","o","f","-">>
K_lycoris == <<"l","y","c","o","r","i","s">>
K_controlnet == <<"c","o","n","t","r","o","l","n","e","t">>
K_control == <<"c","o","n","t","r","o","l">>
K_upscaler == <<"u","p","s","c","a","l","e","r">>
K_upscale == <<"u","p","s","c","a","l","e">>
K_esrgan == <<"e","s","r","g","a","n">>
K_embedding == <<"e","m","b","e","d","d","i","n","g">>
K_textual == <<"t","e","x","t","u","a","l">>
K_hypernetwork == <<"h","y","p","e","r","n","e","t","w","o","r","k">>
K_stable_diffusion == <<"s","t","a","b","l","e","-","d","i","f","f","u","s","i","o","n">>
K_sd_ == <<"s","d","-">>
K_diffusion == <<"d","i","f","f","u","s","i","o","n">>
K_checkpoint == <<"c","h","e","c","k","p","o","i","n","t">>
K_model == <<"m","o","d","e","l">>
K_lora_ == <<"l","o","r","a","-">>
K_textual_inversion == <<"t","e","x","t","u","a","l","-","i","n","v","e","r","s","i","o","n">>
K_ti_ == <<"t","i","-">>
K_real_esrgan == <<"r","e","a","l","-","e","s","r","g","a","n">>
K_hyper == <<"h","y","p","e","r">>

----------------------------------------------------------------------------
(* File names used as inputs *)

F_seg1 == <<"m","-","0","0","0","0","1","-","o","f","-","0","0","0","0","2",".","s","a","f","e","t","e","n","s","o","r","s">>
F_seg2 == <<"m","-","0","0","0","0","2","-","o","f","-","0","0","0","0","2",".","s","a","f","e","t","e","n","s","o","r","s">>
F_seg1bin == <<"m","-","0","0","0","0","1","-","o","f","-","0","0","0","0","2",".","b","i","n">>
F_config == <<"c","o","n","f","i","g",".","j","s","o","n">>
F_te1 == <<"t","e","x","t","_","e","n","c","o","d","e","r","/","m","o","d","e","l",".","s","a","f","e","t","e","n","s","o","r","s">>
F_te2 == <<"t","e","x","t","_","e","n","c","o","d","e","r","_","2","/","m","o","d","e","l",".","s","a","f","e","t","e","n","s","o","r","s">>
F_main == <<"w",".","c","k","p","t">>
F_readme == <<"R","E","A","D","M","E",".","m","d">>
F_vae == <<"v","a","e","/","w",".","c","k","p","t">>

\* repository ids and tags used as inputs
R_flux == <<"a","c","m","e","/","f","l","u","x">>
T_lora == <<"L","o","R","A">>

----------------------------------------------------------------------------
(* HuggingFaceModelManager: pure helpers *)

\* number of digits of a segment index and of a segment total in the
\* segment pattern (\d{5})
SegDigits == 5

\* HuggingFaceModelManager.supported_extensions
hf_supported_extensions ==
    {X_ckpt, X_pt, X_pt2, X_bin, X_pth, X_safetensors, X_pkl, X_sft, X_yaml, X_json}

\* MODEL_TYPE_PATTERNS, in the order of the dict literal
MODEL_TYPE_PATTERNS == <<
    <<K_stable_diffusion, "checkpoints">>, <<K_sd_, "checkpoints">>,
    <<K_diffusion, "checkpoints">>, <<K_checkpoint, "checkpoints">>,
    <<K_model, "checkpoints">>,
    <<K_lora, "loras">>, <<K_lora_, "loras">>, <<K_loras, "loras">>,
    <<K_vae, "vae">>, <<K_autoencoder, "vae">>,
    <<K_controlnet, "controlnet">>, <<K_control, "controlnet">>,
    <<K_embedding, "embeddings">>, <<K_textual_inversion, "embeddings">>,
    <<K_ti_, "embeddings">>,
    <<K_upscaler, "upscale_models">>, <<K_upscale, "upscale_models">>,
    <<K_esrgan, "upscale_models">>, <<K_real_esrgan, "upscale_models">>,
    <<K_hypernetwork, "hypernetworks">>, <<K_hyper, "hypernetworks">> >>

Min(S) == CHOOSE x \in S : \A y \in S : x <= y

\* the type of the last entry of the table whose pattern is in text
pattern_type_last_match(text) ==
    LET hits == {i \in 1..Len(MODEL_TYPE_PATTERNS) :
                    contains(text, MODEL_TYPE_PATTERNS[i][1])}
    IN  IF hits = {} THEN "" ELSE MODEL_TYPE_PATTERNS[Max(hits)][2]

\* the loop  for pattern, model_type in MODEL_TYPE_PATTERNS.items():
\*               if pattern in text: return model_type
\* "" when no pattern is in text
pattern_type(text) ==
    LET hits == {i \in 1..Len(MODEL_TYPE_PATTERNS) :
                    contains(text, MODEL_TYPE_PATTERNS[i][1])}
    IN  IF hits = {} THEN "" ELSE MODEL_TYPE_PATTERNS[Min(hits)][2]

\* the loop over tags: the type of the first tag holding a pattern, else ""
RECURSIVE tags_type(_)
tags_type(tags) ==
    IF tags = <<>> THEN ""
    ELSE IF pattern_type(lower(Head(tags))) # "" THEN pattern_type(lower(Head(tags)))
    ELSE tags_type(Tail(tags))

\* detect_model_type(repo_id, repo_info), repo_info given (download_model
\* returns before the call when it is missing).  info.tags_none: the hub
\* answered tags = None, the loop over it raises and the except returns
\* 'checkpoints'.  info.card: str(cardData), "" when there is no card data.
detect_model_type(repo_id, info) ==
    LET repo_name == lower(last_component(repo_id))
    IN  IF pattern_type(repo_name) # "" THEN pattern_type(repo_name)
        ELSE IF info.tags_none THEN "checkpoints"
        ELSE IF tags_type(info.tags) # "" THEN tags_type(info.tags)
        ELSE IF info.card # <<>> /\ pattern_type(lower(info.card)) # ""
             THEN pattern_type(lower(info.card))
        ELSE "checkpoints"

NoMatch == [matched |-> FALSE]

\* the segment pattern with a prefix that may be empty, (.*) for (.+)
segment_match_any_prefix(file) ==
    LET n == Len(file)
        dots == positions(file, ".")
        p == IF dots = {} THEN 0 ELSE Max(dots)
        tot_from == p - SegDigits
        of_from == tot_from - Len(K_of)
        idx_from == of_from - SegDigits
        dash == idx_from - 1
        all_digits(a, b) == \A i \in a..b : is_digit(file[i])
    IN  IF /\ p > 0
           /\ p < n
           /\ dash > 0
           /\ file[dash] = "-"
           /\ all_digits(idx_from, of_from - 1)
           /\ SubSeq(file, of_from, tot_from - 1) = K_of
           /\ all_digits(tot_from, p - 1)
        THEN [matched |-> TRUE,
              base_name |-> SubSeq(file, 1, dash - 1),
              segment |-> int(SubSeq(file, idx_from, of_from - 1)),
              total |-> int(SubSeq(file, tot_from, p - 1)),
              extension |-> SubSeq(file, p + 1, n)]
        ELSE NoMatch

\* re.match(r'(.+)-(\d{5})-of-(\d{5})\.([^.]+)$', file).  The extension
\* group holds no "." and runs to the end, so the "\." is the last "." of
\* the name; the two digit groups and the literals before it have fixed
\* widths, so the greedy (.+) is whatever is left, and must not be empty.
segment_match(file) ==
    LET n == Len(file)
        dots == positions(file, ".")
        p == IF dots = {} THEN 0 ELSE Max(dots)
        tot_from == p - SegDigits
        of_from == tot_from - Len(K_of)
        idx_from == of_from - SegDigits
        dash == idx_from - 1
        all_digits(a, b) == \A i \in a..b : is_digit(file[i])
    IN  IF /\ p > 0
           /\ p < n
           /\ dash > 1
           /\ file[dash] = "-"
           /\ all_digits(idx_from, of_from - 1)
           /\ SubSeq(file, of_from, tot_from - 1) = K_of
           /\ all_digits(tot_from, p - 1)
        THEN [matched |-> TRUE,
              base_name |-> SubSeq(file, 1, dash - 1),
              segment |-> int(SubSeq(file, idx_from, of_from - 1)),
              total |-> int(SubSeq(file, tot_from, p - 1)),
              extension |-> SubSeq(file, p + 1, n)]
        ELSE NoMatch

\* index of the group keyed base_name, 0 when there is none
group_index(groups, base_name) ==
    LET hits == {i \in 1..Len(groups) : groups[i].base_name = base_name}
    IN  IF hits = {} THEN 0 ELSE Min(hits)

\* the loop iteration that skips a file whose segment index the group
\* already holds
add_segment_file_once_per_index(groups, file) ==
    LET m == segment_match(file)
        entry == [file |-> file, segment |-> m.segment, total |-> m.total]
        g == group_index(groups, m.base_name)
    IN  IF ~m.matched THEN groups
        ELSE IF g = 0
        THEN Append(groups, [base_name |-> m.base_name,
                             total_segments |-> m.total,
                             extension |-> m.extension,
                             files |-> <<entry>>])
        ELSE IF \E i \in DOMAIN groups[g].files :
                    groups[g].files[i].segment = m.segment
        THEN groups
        ELSE [groups EXCEPT ![g].files = Append(@, entry)]

\* one iteration of the loop over files in detect_segmented_models
add_segment_file(groups, file) ==
    LET m == segment_match(file)
        entry == [file |-> file, segment |-> m.segment, total |-> m.total]
        g == group_index(groups, m.base_name)
    IN  IF ~m.matched THEN groups
        ELSE IF g = 0
        THEN Append(groups, [base_name |-> m.base_name,
                             total_segments |-> m.total,
                             extension |-> m.extension,
                             files |-> <<entry>>])
        ELSE [groups EXCEPT ![g].files = Append(@, entry)]

RECURSIVE scan_files(_, _)
scan_files(groups, files) ==
    IF files = <<>> THEN groups
    ELSE scan_files(add_segment_file(groups, Head(files)), Tail(files))

\* the entry kept where the listing has it, with no regard to its segment
insert_in_listing_order(sorted, e) == Append(sorted, e)

\* insert e after the last entry whose segment is <= e.segment
insert_sorted(sorted, e) ==
    LET k == Cardinality({i \in 1..Len(sorted) : sorted[i].segment <= e.segment})
    IN  SubSeq(sorted, 1, k) \o <<e>> \o SubSeq(sorted, k + 1, Len(sorted))

\* list.sort(key=lambda x: x['segment']): a stable sort
RECURSIVE sort_by_segment(_)
sort_by_segment(entries) ==
    IF entries = <<>> THEN <<>>
    ELSE insert_sorted(sort_by_segment(SubSeq(entries, 1, Len(entries) - 1)),
                       entries[Len(entries)])

\* detect_segmented_models(files): the dict as the sequence of its values in
\* insertion order, each with its key as base_name
detect_segmented_models(files) ==
    LET groups == scan_files(<<>>, files)
    IN  [i \in 1..Len(groups) |->
            [groups[i] EXCEPT !.files = sort_by_segment(@)]]

\* HuggingFaceModelManager.get_model_directory(model_type): the directory
\* root of a category is named by the category; known is the set of
\* categories folder_paths.folder_names_and_paths holds, 'checkpoints' among
\* them
hf_get_model_directory(model_type, known) ==
    IF model_type \in known THEN model_type ELSE "checkpoints"

\* the if chain of get_file_destination_directory: the category whose
\* directory the file goes to, "" for a config file or a main model file,
\* which both stay in the base directory
file_category(filename) ==
    LET filename_lower == lower(filename)
    IN  IF any_in(filename_lower, {K_vae, K_autoencoder})
           \/ contains(filename_lower, K_vae_dir)
        THEN "vae"
        ELSE IF any_in(filename_lower, {K_lora, K_loras})
                \/ contains(filename_lower, K_lora_dir)
        THEN "loras"
        ELSE IF any_in(filename_lower, {K_text_encoder, K_text_encoders})
                \/ contains(filename_lower, K_text_encoder_dir)
        THEN "text_encoders"
        ELSE IF any_in(filename_lower, {K_unet, K_diffusion_pytorch_model})
                \/ contains(filename_lower, K_unet_dir)
        THEN "diffusion_models"
        ELSE ""

\* get_file_destination_directory(filename, base_model_dir, repo_id): every
\* branch returns os.path.join(<root>, repo_name); the root is returned
get_file_destination_directory(filename, base_model_dir, known) ==
    IF file_category(filename) = "" THEN base_model_dir
    ELSE hf_get_model_directory(file_category(filename), known)

\* is_main_model_file(filename)
is_main_model_file(filename) ==
    LET filename_lower == lower(filename)
    IN  /\ any_in(filename_lower, {X_safetensors, X_ckpt, X_pt, X_pth})
        /\ ~any_in(filename_lower, {K_vae, K_lora, K_text_encoder, K_unet, K_config,
                                    K_preprocessor, K_tokenizer, K_scheduler})

\* model_files = [f for f in files if any(f.lower().endswith(ext) ...)]
hf_select_model_files(files) ==
    SelectSeq(files, LAMBDA f : \E ext \in hf_supported_extensions :
                                    endswith(lower(f), ext))

----------------------------------------------------------------------------
(* CivitaiURLParser *)

L_models == <<"c","i","v","i","t","a","i",".","c","o","m","/","m","o","d","e","l","s","/">>
L_versions == <<"/","v","e","r","s","i","o","n","s","/">>
L_query == <<"m","o","d","e","l","V","e","r","s","i","o","n","I","d","=">>
L_download == <<"c","i","v","i","t","a","i",".","c","o","m","/","a","p","i","/","d","o","w","n","l","o","a","d","/","m","o","d","e","l","s","/">>

\* Python's None for an id: the ids the patterns yield are never negative
None == 0 - 1

\* Python's  not x  for an id: None and 0 are both false
falsy(x) == x = None \/ x = 0

\* str.strip() over the whitespace of the alphabet, then str.rstrip('/')
RECURSIVE rstrip(_, _)
rstrip(s, c) ==
    IF s # <<>> /\ s[Len(s)] = c THEN rstrip(SubSeq(s, 1, Len(s) - 1), c) ELSE s

RECURSIVE lstrip(_, _)
lstrip(s, c) == IF s # <<>> /\ Head(s) = c THEN lstrip(Tail(s), c) ELSE s

normalize_url(url) == rstrip(rstrip(lstrip(url, " "), " "), "/")

\* whether the literal lit stands at position i of s
has_at(s, i, lit) ==
    /\ i >= 1
    /\ i + Len(lit) - 1 <= Len(s)
    /\ SubSeq(s, i, i + Len(lit) - 1) = lit

\* the positions at which the literal lit occurs in s
occurrences(s, lit) == {i \in 1..Len(s) : has_at(s, i, lit)}

\* the character classes of the patterns: \d, [^/] and [^/?]
not_slash(c) == c # "/"
not_slash_or_query(c) == c # "/" /\ c # "?"

in_class(c, class) ==
    IF class = "digit" THEN is_digit(c)
    ELSE IF class = "not_slash" THEN not_slash(c)
    ELSE not_slash_or_query(c)

\* the end of the longest run of characters of the class that starts at i
\* (i - 1 when the run is empty)
run_end(s, i, class) ==
    LET stops == {j \in i..Len(s) : ~in_class(s[j], class)}
    IN  IF stops = {} THEN Len(s) ELSE Min(stops) - 1

NoUrlMatch == [matched |-> FALSE, model_id |-> None, version_id |-> None]

\* whether civitai\.com/models/(\d+)/[^/]+/versions/(\d+) matches at
\* position i.  A greedy \d+ that must be followed by "/" is the whole run of
\* digits, and a greedy [^/]+ that must be followed by "/versions/" is the
\* whole run up to the next "/".
version_pattern_at(url, i) ==
    LET a == i + Len(L_models)
        b == run_end(url, a, "digit")
        c == run_end(url, b + 2, "not_slash")
        v == c + 1 + Len(L_versions)
        d == run_end(url, v, "digit")
    IN  IF /\ has_at(url, i, L_models)
           /\ b >= a
           /\ b + 1 <= Len(url) /\ url[b + 1] = "/"
           /\ c >= b + 2
           /\ has_at(url, c + 1, L_versions)
           /\ d >= v
        THEN [matched |-> TRUE,
              model_id |-> int(SubSeq(url, a, b)),
              version_id |-> int(SubSeq(url, v, d))]
        ELSE NoUrlMatch

\* re.search: the match at the leftmost position that has one
version_pattern_search(url) ==
    LET hits == {i \in 1..Len(url) : version_pattern_at(url, i).matched}
    IN  IF hits = {} THEN NoUrlMatch ELSE version_pattern_at(url, Min(hits))

\* civitai\.com/models/(\d+)(?:/[^/?]*)?(?:\?.*modelVersionId=(\d+))? at
\* position i.  Everything after the first \d+ is optional, so each greedy
\* part takes its whole run; the query group is tried only when "?" follows
\* directly, and its greedy .* leaves the last "modelVersionId=<digit>".
model_pattern_at(url, i) ==
    LET a == i + Len(L_models)
        b == run_end(url, a, "digit")
        slug_end == IF b + 1 <= Len(url) /\ url[b + 1] = "/"
                    THEN run_end(url, b + 2, "not_slash_or_query")
                    ELSE b
        q == slug_end + 1
        keys == {k \in occurrences(url, L_query) :
                    /\ k > q
                    /\ k + Len(L_query) <= Len(url)
                    /\ is_digit(url[k + Len(L_query)])}
        v == Max(keys) + Len(L_query)
    IN  IF has_at(url, i, L_models) /\ b >= a
        THEN [matched |-> TRUE,
              model_id |-> int(SubSeq(url, a, b)),
              version_id |->
                IF q <= Len(url) /\ url[q] = "?" /\ keys # {}
                THEN int(SubSeq(url, v, run_end(url, v, "digit")))
                ELSE None]
        ELSE NoUrlMatch

model_pattern_search(url) ==
    LET hits == {i \in 1..Len(url) : model_pattern_at(url, i).matched}
    IN  IF hits = {} THEN NoUrlMatch ELSE model_pattern_at(url, Min(hits))

\* civitai\.com/api/download/models/(\d+) at position i
download_pattern_at(url, i) ==
    LET a == i + Len(L_download)
        b == run_end(url, a, "digit")
    IN  IF has_at(url, i, L_download) /\ b >= a
        THEN [matched |-> TRUE, model_id |-> None,
              version_id |-> int(SubSeq(url, a, b))]
        ELSE NoUrlMatch

download_pattern_search(url) ==
    LET hits == {i \in 1..Len(url) : download_pattern_at(url, i).matched}
    IN  IF hits = {} THEN NoUrlMatch ELSE download_pattern_at(url, Min(hits))

UrlInfo(m, url_type) ==
    [parsed |-> TRUE, model_id |-> m.model_id, version_id |-> m.version_id,
     url_type |-> url_type]

\* the three patterns tried with the model pattern ahead of the version
\* pattern
first_pattern_model_first(by_version, by_model, by_download) ==
    IF by_model.matched THEN UrlInfo(by_model, "model")
    ELSE IF by_version.matched THEN UrlInfo(by_version, "version")
    ELSE IF by_download.matched THEN UrlInfo(by_download, "download")
    ELSE [parsed |-> FALSE, model_id |-> None, version_id |-> None, url_type |-> "none"]

\* the order in which parse_civitai_url tries its three patterns
first_pattern(by_version, by_model, by_download) ==
    IF by_version.matched THEN UrlInfo(by_version, "version")
    ELSE IF by_model.matched THEN UrlInfo(by_model, "model")
    ELSE IF by_download.matched THEN UrlInfo(by_download, "download")
    ELSE [parsed |-> FALSE, model_id |-> None, version_id |-> None, url_type |-> "none"]

\* CivitaiURLParser.parse_civitai_url(url); parsed = FALSE is its None
parse_civitai_url(url) ==
    LET u == normalize_url(url)
    IN  first_pattern(version_pattern_search(u), model_pattern_search(u),
                      download_pattern_search(u))

----------------------------------------------------------------------------
(* CivitaiModelManager: classification and directory *)

\* MODEL_TYPE_MAPPING
MODEL_TYPE_MAPPING ==
    [Checkpoint |-> "checkpoints", LORA |-> "loras", LoCon |-> "loras",
     TextualInversion |-> "embeddings", Hypernetwork |-> "hypernetworks",
     AestheticGradient |-> "embeddings", Controlnet |-> "controlnet",
     Poses |-> "controlnet", VAE |-> "vae", Upscaler |-> "upscale_models",
     MotionModule |-> "motion_modules", Wildcards |-> "wildcards",
     Other |-> "checkpoints"]

\* the fallback of determine_model_type: the if/elif chain over the
\* lowercased filename
filename_model_type(filename) ==
    LET filename_lower == lower(filename)
    IN  IF any_in(filename_lower, {K_lora, K_lycoris}) THEN "loras"
        ELSE IF any_in(filename_lower, {K_vae}) THEN "vae"
        ELSE IF any_in(filename_lower, {K_controlnet, K_control}) THEN "controlnet"
        ELSE IF any_in(filename_lower, {K_upscaler, K_upscale, K_esrgan})
             THEN "upscale_models"
        ELSE IF any_in(filename_lower, {K_embedding, K_textual}) THEN "embeddings"
        ELSE IF any_in(filename_lower, {K_hypernetwork}) THEN "hypernetworks"
        ELSE "checkpoints"

\* determine_model_type with the filename consulted ahead of the table
determine_model_type_filename_first(civitai_type, filename) ==
    IF filename_model_type(filename) # "checkpoints"
    THEN filename_model_type(filename)
    ELSE IF civitai_type \in DOMAIN MODEL_TYPE_MAPPING
    THEN MODEL_TYPE_MAPPING[civitai_type]
    ELSE "checkpoints"

\* determine_model_type(civitai_type, filename); the type tag is a string
determine_model_type(civitai_type, filename) ==
    IF civitai_type \in DOMAIN MODEL_TYPE_MAPPING
    THEN MODEL_TYPE_MAPPING[civitai_type]
    ELSE filename_model_type(filename)

\* CivitaiModelManager.get_model_directory(model_type): "ValueError" stands
\* for the exception raised for a category folder_paths does not hold
civitai_get_model_directory(model_type, known) ==
    IF model_type \notin known THEN "ValueError" ELSE model_type

----------------------------------------------------------------------------
(* Inputs *)

\* sequences of length n over S without repetition: a repository lists each
\* path once
RECURSIVE distinct_seqs(_, _)
distinct_seqs(S, n) ==
    IF n = 0 THEN {<<>>}
    ELSE UNION {{Append(q, x) : x \in S \ {q[i] : i \in 1..Len(q)}} :
                    q \in distinct_seqs(S, n - 1)}

HFFiles == {F_seg1, F_seg2, F_seg1bin, F_config, F_te1, F_te2, F_main, F_readme, F_vae}

HFListings == UNION {distinct_seqs(HFFiles, n) : n \in 0..MaxFiles}

\* what folder_paths.folder_names_and_paths may hold: everything the
\* integrations name, or a configuration without 'vae'
AllCategories ==
    {"checkpoints", "loras", "vae", "text_encoders", "diffusion_models", "controlnet",
     "embeddings", "upscale_models", "hypernetworks"}
KnownSets == {AllCategories, AllCategories \ {"vae"}}

\* download_model requests of the Hugging Face manager, each with what the
\* hub holds for the repository; tags matter to the directory only without
\* custom_dir
HFRequests ==
    {r \in [repo_id : {R_flux}, tags : {<<>>, <<T_lora>>},
             tags_none : {FALSE}, card : {<<>>}, listing : HFListings,
             custom_dir : BOOLEAN, known : KnownSets] :
        r.custom_dir => r.tags = <<>>}

\* the outcomes of one download_file call
DownloadOutcomes == {"ok", "fetch_failed", "move_failed"}

----------------------------------------------------------------------------
(* HuggingFaceModelManager: download_file, download_segmented_model and
   download_model *)

\* download_file returns True exactly when hf_hub_download, makedirs, remove
\* and rename have all gone through
download_file_ok(outcome) == outcome = "ok"

\* the disk after download_file(repo_id, filename, destination):
\*   ok           the destination holds the file (an older file there is
\*                removed first)
\*   fetch_failed hf_hub_download or makedirs raised: nothing changed
\*   move_failed  os.remove went through and os.rename raised: an older file
\*                at the destination is gone
download_file_disk(d, destination, filename, outcome) ==
    CASE outcome = "ok" ->
            {e \in d : e.path # destination}
                \cup {[path |-> destination, content |-> filename, complete |-> TRUE]}
      [] outcome = "fetch_failed" -> d
      [] outcome = "move_failed" -> {e \in d : e.path # destination}

Path(dir, name) == [dir |-> dir, name |-> name]

\* destination of a member of a segmented model:
\* os.path.join(segmented_destination_dir, filename)
segment_destination(group, filename, base_dir, known) ==
    Path(get_file_destination_directory(group.base_name, base_dir, known), filename)

\* destination of a file on the direct path:
\* os.path.join(file_destination_dir, os.path.basename(model_file))
direct_destination(model_file, base_dir, known) ==
    Path(get_file_destination_directory(model_file, base_dir, known),
         basename(model_file))

\* the check after the loop of download_segmented_model
segments_verified(n_downloaded, total_segments) == n_downloaded = total_segments

\* which member of the sorted list the loop of download_segmented_model
\* takes at its k-th iteration
segment_at(files, k) == files[k]

Outcome(ok) == IF ok THEN "ok" ELSE "failed"

\* a call of save_model_metadata / _save_metadata for the artifact at
\* destination; written = FALSE: writing the sidecar raised, which the
\* function logs and swallows
Sidecar(destination, written) == [artifact |-> destination, written |-> written]

\* the sidecar writer letting its exception through
save_metadata_propagates(written) == IF written THEN "returned" ELSE "raised"

\* how save_model_metadata / _save_metadata ends: the whole body is in a try
\* block whose except clause logs, so the call returns whether the sidecar
\* was written or not
save_metadata(written) == "returned"

\* the aggregate taken from the last download alone
direct_success_last_only(so_far, ok) == ok

\* the aggregate of the direct path: success starts True and one failed
\* download sets it to False
direct_success(so_far, ok) == so_far /\ ok

\* the return that saves the metadata of the request before it gives up
early_return_with_metadata(reason) ==
    /\ pc' = "done"
    /\ result' = "failed"
    /\ error' = reason
    /\ sidecars' = Append(sidecars, Sidecar(Path(model_dir, <<>>), TRUE))
    /\ UNCHANGED <<model_dir, segmented_models, seg_pos, downloaded_files, model_files,
                   file_pos, success, downloaded_main_model, attempts, group_results,
                   disk>>

\* return False before any download, after logging reason
early_return(reason) ==
    /\ pc' = "done"
    /\ result' = "failed"
    /\ error' = reason
    /\ UNCHANGED <<model_dir, segmented_models, seg_pos, downloaded_files, model_files,
                   file_pos, success, downloaded_main_model, attempts, group_results,
                   disk, sidecars>>

\* the lookups of download_model: get_repo_info, and list_repo_files when
\* the repository was found
hf_api_calls(info_ok) ==
    <<"get_repo_info">> \o (IF info_ok THEN <<"list_repo_files">> ELSE <<>>)

\* download_model up to its first download: repository lookup, type
\* detection, directory, listing, segment detection, file selection
hf_download_model ==
    /\ source = "hf"
    /\ pc = "start"
    /\ UNCHANGED cli_vars
    /\ UNCHANGED wait_vars
    /\ UNCHANGED <<source, req, call, ret>>
    /\ \E info_ok \in BOOLEAN, list_ok \in BOOLEAN :
       \* get_repo_info returns None, and list_repo_files returns [], when
       \* the call to the hub raises
       (api_calls' = hf_api_calls(info_ok)) /\
       IF ~info_ok THEN early_return("Could not get repository information")
       ELSE IF ~list_ok \/ req.listing = <<>>
       THEN early_return("No files found in repository")
       ELSE LET dir == IF req.custom_dir THEN "custom_dir"
                       ELSE hf_get_model_directory(
                                detect_model_type(req.repo_id, req), req.known)
                groups == detect_segmented_models(req.listing)
                selected == hf_select_model_files(req.listing)
            IN  IF groups # <<>>
                THEN /\ pc' = "segmented"
                     /\ model_dir' = dir
                     /\ segmented_models' = groups
                     /\ seg_pos' = 1
                     /\ downloaded_files' = <<>>
                     /\ success' = TRUE
                     /\ UNCHANGED <<model_files, file_pos, downloaded_main_model,
                                    attempts, group_results, disk, sidecars, result,
                                    error>>
                ELSE IF selected = <<>>
                THEN early_return("No model files found in repository")
                ELSE /\ pc' = "direct"
                     /\ model_dir' = dir
                     /\ model_files' = selected
                     /\ file_pos' = 1
                     /\ success' = TRUE
                     /\ downloaded_main_model' = FALSE
                     /\ UNCHANGED <<segmented_models, seg_pos, downloaded_files,
                                    attempts, group_results, disk, sidecars, result,
                                    error>>

\* the loop of download_model left at the first group that failed
hf_group_returns_stop_on_failure(r) ==
    /\ group_results' = Append(group_results, r)
    /\ success' = (success /\ r)
    /\ segmented_models' = Tail(segmented_models)
    /\ seg_pos' = 1
    /\ downloaded_files' = <<>>
    /\ IF Len(segmented_models) = 1 \/ ~r
       THEN pc' = "done" /\ result' = Outcome(success /\ r)
       ELSE UNCHANGED <<pc, result>>

\* download_segmented_model returned r for the current group: the loop of
\* download_model goes to the next group, or returns success after the last
hf_group_returns(r) ==
    /\ group_results' = Append(group_results, r)
    /\ success' = (success /\ r)
    /\ segmented_models' = Tail(segmented_models)
    /\ seg_pos' = 1
    /\ downloaded_files' = <<>>
    /\ IF Len(segmented_models) = 1
       THEN pc' = "done" /\ result' = Outcome(success /\ r)
       ELSE UNCHANGED <<pc, result>>

\* one iteration of the loop over the members in download_segmented_model,
\* with what follows it when it is the group's last
hf_download_segment ==
    /\ source = "hf"
    /\ pc = "segmented"
    /\ UNCHANGED cli_vars
    /\ UNCHANGED wait_vars
    /\ UNCHANGED api_calls
    /\ UNCHANGED <<source, req, model_dir, model_files, file_pos, downloaded_main_model,
                   sidecars, error, call, ret>>
    /\ \E outcome \in DownloadOutcomes :
        LET group == Head(segmented_models)
            file_info == segment_at(group.files, seg_pos)
            destination == segment_destination(group, file_info.file, model_dir,
                                               req.known)
            ok == download_file_ok(outcome)
        IN  /\ attempts' = Append(attempts, [file |-> file_info.file,
                                             dest |-> destination, ok |-> ok])
            /\ disk' = download_file_disk(disk, destination, file_info.file, outcome)
            /\ IF ~ok
               THEN hf_group_returns(FALSE)
               ELSE IF seg_pos = Len(group.files)
               THEN hf_group_returns(
                        segments_verified(Len(downloaded_files) + 1,
                                          group.total_segments))
               ELSE /\ seg_pos' = seg_pos + 1
                    /\ downloaded_files' = Append(downloaded_files, destination)
                    /\ UNCHANGED <<pc, result, segmented_models, success,
                                   group_results>>

\* one iteration of the loop over model_files in download_model, with the
\* return when it is the last
hf_download_direct ==
    /\ source = "hf"
    /\ pc = "direct"
    /\ UNCHANGED cli_vars
    /\ UNCHANGED wait_vars
    /\ UNCHANGED api_calls
    /\ UNCHANGED <<source, req, model_dir, model_files, segmented_models, seg_pos,
                   downloaded_files, group_results, error, call, ret>>
    /\ \E outcome \in DownloadOutcomes, meta_ok \in BOOLEAN :
        LET model_file == model_files[file_pos]
            destination == direct_destination(model_file, model_dir, req.known)
            ok == download_file_ok(outcome)
            save == ok /\ ~downloaded_main_model /\ is_main_model_file(model_file)
        IN  /\ attempts' = Append(attempts, [file |-> model_file,
                                             dest |-> destination, ok |-> ok])
            /\ disk' = download_file_disk(disk, destination, model_file, outcome)
            /\ sidecars' = IF save THEN Append(sidecars, Sidecar(destination, meta_ok))
                           ELSE sidecars
            /\ downloaded_main_model' = (downloaded_main_model \/ save)
            /\ success' = direct_success(success, ok)
            /\ file_pos' = file_pos + 1
            /\ IF save /\ save_metadata(meta_ok) = "raised"
               THEN pc' = "done" /\ result' = "failed"
               ELSE IF file_pos = Len(model_files)
               THEN pc' = "done" /\ result' = Outcome(direct_success(success, ok))
               ELSE UNCHANGED <<pc, result>>

----------------------------------------------------------------------------
(* CivitaiModelManager: download_from_url, download_model, _download_file *)

F_vaelora == <<"v","a","e","_","l","o","r","a",".","p","t">>
U_version == <<"h","t","t","p","s",":","/","/","c","i","v","i","t","a","i",".","c","o","m","/","m","o","d","e","l","s","/","1","2","/","x","/","v","e","r","s","i","o","n","s","/","3","4">>
U_model == <<"c","i","v","i","t","a","i",".","c","o","m","/","m","o","d","e","l","s","/","1","2","/","x">>
U_download == <<"c","i","v","i","t","a","i",".","c","o","m","/","a","p","i","/","d","o","w","n","l","o","a","d","/","m","o","d","e","l","s","/","3","4">>
U_bad == <<"c","i","v","i","t","a","i",".","c","o","m","/","u","s","e","r","/","x">>

CivitaiFiles == {F_main, F_vaelora, F_config}

CivitaiListings == UNION {distinct_seqs(CivitaiFiles, n) : n \in 0..MaxFiles}

\* download_from_url requests of the Civitai manager; civitai_type is the
\* 'type' of the model the URL names ("Unknown": a type the table lacks)
CivitaiRequests ==
    [url : {U_version, U_model, U_download, U_bad},
     civitai_type : {"Checkpoint", "VAE", "MotionModule", "Unknown"},
     custom_dir : BOOLEAN, known : KnownSets]

\* what the Civitai API answers during one request:
\*   lookup_ok, lookup_model_id  get_model_version_info of download_from_url
\*                               and the 'modelId' it holds
\*   model_info_ok               get_model_info
\*   has_versions                'modelVersions' of the model is not empty
\*   version_ok                  get_model_version_info of download_model
\*   files                       the names of the 'files' of the version
\*   has_url                     the first file holds a 'downloadUrl'
CivitaiAnswers ==
    [lookup_ok : BOOLEAN, lookup_model_id : {None, 12}, model_info_ok : BOOLEAN,
     has_versions : BOOLEAN, version_ok : BOOLEAN, files : CivitaiListings,
     has_url : BOOLEAN]

\* the outcomes of one _download_file call
CivitaiOutcomes == {"ok", "fetch_failed", "partial"}

civitai_download_file_ok(outcome) == outcome = "ok"

\* the disk after _download_file(url, destination):
\*   ok           the destination holds the whole file
\*   fetch_failed requests.get, raise_for_status or open raised: nothing
\*                written
\*   partial      the stream broke after open(destination, 'wb'): the
\*                destination holds part of the file
civitai_download_file_disk(d, destination, filename, outcome) ==
    CASE outcome = "ok" ->
            {e \in d : e.path # destination}
                \cup {[path |-> destination, content |-> filename, complete |-> TRUE]}
      [] outcome = "fetch_failed" -> d
      [] outcome = "partial" ->
            {e \in d : e.path # destination}
                \cup {[path |-> destination, content |-> filename, complete |-> FALSE]}

\* the file download_model picks when no filename is given: files[0]
civitai_target_file(files) == Head(files)

\* the lookups with get_model_info ahead of the version lookup that
\* resolves a download URL
civitai_api_calls_model_first(url_info, need_lookup, model_id, ans) ==
    IF ~url_info.parsed THEN <<>>
    ELSE <<"get_model_info">>
         \o (IF need_lookup THEN <<"get_model_version_info">> ELSE <<>>)

\* the lookups of download_from_url and download_model, in order: the
\* version lookup that resolves a download URL, get_model_info, and the
\* version lookup of download_model when a version id is at hand
civitai_api_calls(url_info, need_lookup, model_id, ans) ==
    IF ~url_info.parsed THEN <<>>
    ELSE (IF need_lookup THEN <<"get_model_version_info">> ELSE <<>>)
         \o (IF (need_lookup /\ ~ans.lookup_ok) \/ falsy(model_id) THEN <<>>
             ELSE <<"get_model_info">>
                  \o (IF ans.model_info_ok /\ ~falsy(url_info.version_id)
                      THEN <<"get_model_version_info">> ELSE <<>>))

\* download_from_url and download_model up to the call of _download_file
civitai_download_from_url ==
    /\ source = "civitai"
    /\ pc = "start"
    /\ UNCHANGED cli_vars
    /\ UNCHANGED wait_vars
    /\ UNCHANGED <<source, req, call, ret>>
    /\ \E ans \in CivitaiAnswers, url_info \in {parse_civitai_url(req.url)} :
        LET need_lookup == /\ url_info.url_type = "download"
                           /\ falsy(url_info.model_id)
                           /\ ~falsy(url_info.version_id)
            model_id == IF need_lookup THEN ans.lookup_model_id
                        ELSE url_info.model_id
            version_id == url_info.version_id
            target_file == civitai_target_file(ans.files)
            comfyui_type == determine_model_type(req.civitai_type, target_file)
            dir == IF req.custom_dir THEN "custom_dir"
                   ELSE civitai_get_model_directory(comfyui_type, req.known)
        IN  (api_calls' = civitai_api_calls(url_info, need_lookup, model_id, ans)) /\
            IF ~url_info.parsed THEN early_return("Invalid Civitai URL")
            ELSE IF need_lookup /\ ~ans.lookup_ok
            THEN early_return("Could not get version info")
            ELSE IF need_lookup /\ falsy(ans.lookup_model_id)
            THEN early_return("Could not determine model ID from version")
            ELSE IF falsy(model_id)
            THEN early_return("Could not determine model ID from URL")
            ELSE IF ~ans.model_info_ok THEN early_return("Failed to get model info")
            ELSE IF falsy(version_id) /\ ~ans.has_versions
            THEN early_return("No versions found for model")
            ELSE IF ~falsy(version_id) /\ ~ans.version_ok
            THEN early_return("Failed to get version info")
            ELSE IF ans.files = <<>>
            THEN early_return("No files found for model version")
            ELSE IF dir = "ValueError" THEN early_return("Error downloading model")
            ELSE IF ~ans.has_url THEN early_return("No download URL found for file")
            ELSE /\ pc' = "transfer"
                 /\ model_dir' = dir
                 /\ model_files' = ans.files
                 /\ file_pos' = 1
                 /\ UNCHANGED <<segmented_models, seg_pos, downloaded_files, success,
                                downloaded_main_model, attempts, group_results, disk,
                                sidecars, result, error>>

\* _download_file and the rest of download_model
civitai_download_file ==
    /\ source = "civitai"
    /\ pc = "transfer"
    /\ UNCHANGED cli_vars
    /\ UNCHANGED wait_vars
    /\ UNCHANGED api_calls
    /\ UNCHANGED <<source, req, call, ret, model_dir, model_files, file_pos,
                   segmented_models, seg_pos, downloaded_files, downloaded_main_model,
                   group_results, error>>
    /\ \E outcome \in CivitaiOutcomes, meta_ok \in BOOLEAN :
        LET target_file == model_files[file_pos]
            destination == Path(model_dir, target_file)
            ok == civitai_download_file_ok(outcome)
        IN  /\ attempts' = Append(attempts, [file |-> target_file,
                                             dest |-> destination, ok |-> ok])
            /\ disk' = civitai_download_file_disk(disk, destination, target_file,
                                                  outcome)
            /\ sidecars' = IF ok THEN Append(sidecars, Sidecar(destination, meta_ok))
                           ELSE sidecars
            /\ success' = ok
            /\ pc' = "done"
            /\ result' = Outcome(ok /\ save_metadata(meta_ok) = "returned")

----------------------------------------------------------------------------
(* AdvancedModelDownloader: get_model_directory and download_from_huggingface *)

\* AdvancedModelDownloader.supported_extensions
adv_supported_extensions ==
    {X_ckpt, X_pt, X_pt2, X_bin, X_pth, X_safetensors, X_pkl, X_sft, X_yaml}

\* AdvancedModelDownloader.get_model_directory(model_type): "ValueError"
\* stands for the exception raised for an unknown model type
adv_get_model_directory(model_type, known) ==
    IF model_type \notin known THEN "ValueError" ELSE model_type

\* model_files = [f for f in repo_files if any(f.endswith(ext) ...)]
adv_select_model_files(repo_files) ==
    SelectSeq(repo_files, LAMBDA f : \E ext \in adv_supported_extensions :
                                        endswith(f, ext))

AdvFiles == {F_main, F_vae, F_config, F_readme}

AdvListings == UNION {distinct_seqs(AdvFiles, n) : n \in 0..MaxFiles}

\* download_from_huggingface(repo_id, model_type, filename) calls with what
\* the hub lists for the repository; filename <<>> is None
AdvRequests ==
    [listing : AdvListings, model_type : {"checkpoints", "vae"},
     filename : {<<>>, F_main, F_config}, known : KnownSets]

\* the outcomes of the try block around one hf_hub_download call
AdvOutcomes == {"ok", "raised"}

\* the block went through: hf_hub_download returned, and
\* extract_model_metadata read the size of the file it had just written
adv_download_ok(outcome) == outcome = "ok"

\* hf_hub_download(filename=file, local_dir=model_dir) puts the file at
\* model_dir/file
adv_download_disk(d, destination, filename, outcome) ==
    IF outcome = "ok"
    THEN {e \in d : e.path # destination}
            \cup {[path |-> destination, content |-> filename, complete |-> TRUE]}
    ELSE d

\* the lookup of download_from_huggingface: list_repo_files, once the
\* directory of the model type is known
adv_api_calls(hf_available, dir) ==
    IF hf_available /\ dir # "ValueError" THEN <<"list_repo_files">> ELSE <<>>

\* download_from_huggingface up to its first download
adv_download_from_huggingface ==
    /\ source = "advanced"
    /\ pc = "start"
    /\ UNCHANGED cli_vars
    /\ UNCHANGED wait_vars
    /\ UNCHANGED <<source, req, call, ret>>
    /\ \E hf_available \in BOOLEAN, list_ok \in BOOLEAN :
        LET dir == adv_get_model_directory(req.model_type, req.known)
            repo_files == req.listing
            selected == adv_select_model_files(repo_files)
        IN  (api_calls' = adv_api_calls(hf_available, dir)) /\
            IF ~hf_available THEN early_return("Hugging Face Hub not available")
            ELSE IF dir = "ValueError" \/ ~list_ok
            THEN early_return("Failed to download from Hugging Face")
            ELSE IF selected = <<>>
            THEN early_return("No supported model files found")
            ELSE IF req.filename # <<>>
                    /\ req.filename \notin {repo_files[i] : i \in DOMAIN repo_files}
            THEN early_return("File not found")
            ELSE /\ pc' = "direct"
                 /\ model_dir' = dir
                 /\ model_files' = IF req.filename # <<>> THEN <<req.filename>>
                                   ELSE selected
                 /\ file_pos' = 1
                 /\ success' = TRUE
                 /\ UNCHANGED <<segmented_models, seg_pos, downloaded_files,
                                downloaded_main_model, attempts, group_results, disk,
                                sidecars, result, error>>

\* one iteration of the loop over model_files in download_from_huggingface,
\* with the return when it is the last
adv_download_file ==
    /\ source = "advanced"
    /\ pc = "direct"
    /\ UNCHANGED cli_vars
    /\ UNCHANGED wait_vars
    /\ UNCHANGED api_calls
    /\ UNCHANGED <<source, req, call, ret, model_dir, model_files, segmented_models,
                   seg_pos, downloaded_files, downloaded_main_model, group_results,
                   sidecars, error>>
    /\ \E outcome \in AdvOutcomes :
        LET file == model_files[file_pos]
            destination == Path(model_dir, file)
            ok == adv_download_ok(outcome)
        IN  /\ attempts' = Append(attempts, [file |-> file, dest |-> destination,
                                             ok |-> ok])
            /\ disk' = adv_download_disk(disk, destination, file, outcome)
            /\ success' = direct_success(success, ok)
            /\ file_pos' = file_pos + 1
            /\ IF file_pos = Len(model_files)
               THEN pc' = "done" /\ result' = Outcome(direct_success(success, ok))
               ELSE UNCHANGED <<pc, result>>

----------------------------------------------------------------------------
(* The download request *)

NoCall == [fn |-> "none"]

\* the state of a request before its first step
request_idle ==
    /\ model_dir = ""
    /\ segmented_models = <<>>
    /\ seg_pos = 1
    /\ downloaded_files = <<>>
    /\ model_files = <<>>
    /\ file_pos = 1
    /\ success = TRUE
    /\ downloaded_main_model = FALSE
    /\ attempts = <<>>
    /\ group_results = <<>>
    /\ disk = {}
    /\ sidecars = <<>>
    /\ result = "pending"
    /\ error = ""
    /\ api_calls = <<>>

\* no command has run
cli_idle ==
    /\ success_count = 0
    /\ entry_results = <<>>
    /\ exit_code = None

\* no wait has begun
wait_idle ==
    /\ elapsed = 0
    /\ polls = <<>>

Init ==
    /\ \/ source = "hf" /\ req \in HFRequests
       \/ source = "civitai" /\ req \in CivitaiRequests
       \/ source = "advanced" /\ req \in AdvRequests
    /\ pc = "start"
    /\ request_idle
    /\ cli_idle
    /\ wait_idle
    /\ call = NoCall
    /\ ret = NoCall

Next ==
    \/ hf_download_model
    \/ hf_download_segment
    \/ hf_download_direct
    \/ civitai_download_from_url
    \/ civitai_download_file
    \/ adv_download_from_huggingface
    \/ adv_download_file

Spec == Init /\ [][Next]_vars

----------------------------------------------------------------------------
(* Calls of the pure functions *)

P_https == <<"h","t","t","p","s",":","/","/">>
P_item == <<"c","i","v","i","t","a","i",".","c","o","m","/","m","o","d","e","l","s","/","5","/","y","/">>
S_query == <<"?","m","o","d","e","l","V","e","r","s","i","o","n","I","d","=","9">>
S_path == <<"/","i","m","a","g","e","s">>
S_versions == <<"v","e","r","s","i","o","n","s">>
S_dash == <<"a","-","b">>
S_mark == <<"a","?","b">>
N_0 == <<"0">>
N_12 == <<"1","2">>
N_007 == <<"0","0","7">>
N_3 == <<"3">>
N_45 == <<"4","5">>
U_noslug == <<"c","i","v","i","t","a","i",".","c","o","m","/","m","o","d","e","l","s","/","1","2","/","/","v","e","r","s","i","o","n","s","/","3">>
U_query == <<"c","i","v","i","t","a","i",".","c","o","m","/","m","o","d","e","l","s","/","1","2","/","x","?","m","o","d","e","l","V","e","r","s","i","o","n","I","d","=","3","4">>
U_nodigits == <<"c","i","v","i","t","a","i",".","c","o","m","/","m","o","d","e","l","s","/","x","/","y","/","v","e","r","s","i","o","n","s","/","3">>

\* what may stand before civitai.com in a URL: nothing, a scheme, white
\* space, and an item URL that the model pattern alone would match first
UrlPrefixes == {<<>>, P_https, <<" ">>, P_item}

UrlIds == {N_0, N_12, N_007}

\* slugs: not empty and without '/'
UrlSlugs == {<<"x">>, S_dash, S_versions, S_mark}

UrlVersionIds == {N_3, N_45}

\* what may follow the version id; none starts with a digit
UrlSuffixes == {<<>>, <<"/">>, <<" ">>, S_query, S_path}

\* <prefix>civitai.com/models/<id>/<slug>/versions/<vid><suffix>
version_url(pre, id, slug, vid, suffix) ==
    pre \o L_models \o id \o <<"/">> \o slug \o L_versions \o vid \o suffix

\* parse_civitai_url calls: the URLs of the version form, and others
ParseCalls ==
    {[fn |-> "parse_civitai_url", form |-> "version", id |-> id, vid |-> vid,
      url |-> version_url(pre, id, slug, vid, suffix)] :
        pre \in UrlPrefixes, id \in UrlIds, slug \in UrlSlugs,
        vid \in UrlVersionIds, suffix \in UrlSuffixes}
    \cup {[fn |-> "parse_civitai_url", form |-> "other", id |-> <<>>, vid |-> <<>>,
           url |-> u] :
            u \in {U_model, U_download, U_bad, U_noslug, U_query, U_nodigits, <<>>}}

\* a call of CivitaiURLParser.parse_civitai_url returns
parse_url ==
    /\ pc = "start"
    /\ call.fn = "parse_civitai_url"
    /\ ret' = parse_civitai_url(call.url)
    /\ pc' = "done"
    /\ UNCHANGED <<call, source, req>>
    /\ UNCHANGED request_vars
    /\ UNCHANGED cli_vars
    /\ UNCHANGED wait_vars

InitParse ==
    /\ source = "none"
    /\ req = NoCall
    /\ pc = "start"
    /\ request_idle
    /\ cli_idle
    /\ wait_idle
    /\ call \in ParseCalls
    /\ ret = NoCall

NextParse == parse_url

SpecParse == InitParse /\ [][NextParse]_vars

W_checkpoint == <<"m","y","-","c","h","e","c","k","p","o","i","n","t">>
W_LoRA == <<"L","o","R","A">>

\* the words file names are made of: the keywords of the classifiers, one
\* in capitals, and a word that holds none
Vocabulary ==
    {K_vae, K_autoencoder, K_lora, W_LoRA, K_controlnet, K_upscaler, K_embedding,
     K_hypernetwork, W_checkpoint}

\* the words joined by '_'
RECURSIVE join_words(_)
join_words(words) ==
    IF words = <<>> THEN <<>>
    ELSE IF Len(words) = 1 THEN words[1]
    ELSE words[1] \o <<"_">> \o join_words(Tail(words))

\* the empty name, and names of up to MaxWords words with an extension
FileNames ==
    {<<>>} \cup {join_words(w) \o X_pt :
                    w \in UNION {[1..n -> Vocabulary] : n \in 1..MaxWords}}

\* type tags: those of the table, the empty tag, and tags the table lacks
TypeTags == DOMAIN MODEL_TYPE_MAPPING \cup {"", "Unknown", "vae"}

\* determine_model_type calls of the Civitai manager, and
\* get_file_destination_directory calls of the Hugging Face manager
ClassifyCalls ==
    [fn : {"determine_model_type"}, type_tag : TypeTags, filename : FileNames]
    \cup [fn : {"get_file_destination_directory"}, type_tag : {""},
          filename : FileNames]

\* a call of CivitaiModelManager.determine_model_type returns
classify_civitai ==
    /\ pc = "start"
    /\ call.fn = "determine_model_type"
    /\ ret' = [category |-> determine_model_type(call.type_tag, call.filename)]
    /\ pc' = "done"
    /\ UNCHANGED <<call, source, req>>
    /\ UNCHANGED request_vars
    /\ UNCHANGED cli_vars
    /\ UNCHANGED wait_vars

\* a call of HuggingFaceModelManager.get_file_destination_directory returns:
\* the root it chose, "base" for the base model directory
classify_hf ==
    /\ pc = "start"
    /\ call.fn = "get_file_destination_directory"
    /\ ret' = [category |-> get_file_destination_directory(call.filename, "base",
                                                           AllCategories)]
    /\ pc' = "done"
    /\ UNCHANGED <<call, source, req>>
    /\ UNCHANGED request_vars
    /\ UNCHANGED cli_vars
    /\ UNCHANGED wait_vars

InitClassify ==
    /\ source = "none"
    /\ req = NoCall
    /\ pc = "start"
    /\ request_idle
    /\ cli_idle
    /\ wait_idle
    /\ call \in ClassifyCalls
    /\ ret = NoCall

NextClassify ==
    \/ classify_civitai
    \/ classify_hf

SpecClassify == InitClassify /\ [][NextClassify]_vars

----------------------------------------------------------------------------
(* Properties of the download request *)

attempted_files == {attempts[i].file : i \in DOMAIN attempts}

\* the request went down the segmented path of download_model
on_segmented_path == source = "hf" /\ (pc = "segmented" \/ group_results # <<>>)

\* the request went down the direct path: that of download_model, or
\* download_from_huggingface of the advanced downloader
on_direct_path ==
    /\ source \in {"hf", "advanced"}
    /\ pc \in {"direct", "done"}
    /\ error = ""
    /\ ~on_segmented_path

\* the groups of the request, in the order download_model takes them
request_groups == detect_segmented_models(req.listing)

\* base name and segment index of the i-th attempted file, read off its name
attempt_base(i) == segment_match(attempts[i].file).base_name
attempt_segment(i) == segment_match(attempts[i].file).segment

same_group(i, j) == attempt_base(i) = attempt_base(j)

on_disk(i) ==
    [path |-> attempts[i].dest, content |-> attempts[i].file, complete |-> TRUE] \in disk

\* the files of the listing that belong to no segment group
ungrouped_files ==
    {req.listing[i] : i \in {n \in DOMAIN req.listing :
                                ~segment_match(req.listing[n]).matched}}

\* C1: when the listing holds a segment group and files outside every group,
\* the finished request has attempted every ungrouped model file, and every
\* member of each group up to the group's first failure.
C1_UngroupedFilesAttempted ==
    (on_segmented_path /\ pc = "done") =>
        /\ \A f \in ungrouped_files :
                (\E ext \in hf_supported_extensions : endswith(lower(f), ext))
                    => f \in attempted_files
        /\ \A k \in DOMAIN request_groups :
                \A n \in DOMAIN request_groups[k].files :
                    \/ request_groups[k].files[n].file \in attempted_files
                    \/ \E i \in DOMAIN attempts :
                        /\ ~attempts[i].ok
                        /\ attempt_base(i) = request_groups[k].base_name

\* C2: two distinct files of one manifest are given distinct destination
\* paths (text_encoder/model.safetensors and text_encoder_2/model.safetensors
\* do not land on one path), and that with every category known to the
\* directory configuration.
C2_DistinctDestinations ==
    (source = "hf" /\ req.known = AllCategories) =>
        \A i, j \in DOMAIN attempts :
            attempts[i].file # attempts[j].file
                => attempts[i].dest # attempts[j].dest

\* the directory the classifiers chose for an attempted file, before the
\* directory configuration is asked
chosen_directory(file) ==
    IF source = "civitai"
    THEN IF req.custom_dir THEN "custom_dir"
         ELSE determine_model_type(req.civitai_type, file)
    ELSE IF source = "advanced" THEN req.model_type
    ELSE LET name == IF on_segmented_path THEN segment_match(file).base_name ELSE file
         IN  IF file_category(name) # "" THEN file_category(name)
             ELSE IF req.custom_dir THEN "custom_dir"
             ELSE detect_model_type(req.repo_id, req)

\* C3: a file is transferred only when the directory configuration knows the
\* category chosen for it, and then into that category's directory: an
\* unknown category fails the request instead of being replaced by another
\* directory (Civitai and Hugging Face alike).
C3_NoSubstitutedDirectory ==
    \A i \in DOMAIN attempts :
        LET c == chosen_directory(attempts[i].file)
        IN  /\ c = "custom_dir" \/ c \in req.known
            /\ attempts[i].dest.dir = c

\* C4: a group reported successful has, for every index 1..total_segments, a
\* successfully downloaded member with that index.
C4_SuccessMeansEveryIndex ==
    on_segmented_path =>
        \A k \in DOMAIN group_results :
            group_results[k] =>
                \A idx \in 1..request_groups[k].total_segments :
                    \E i \in DOMAIN attempts :
                        /\ attempts[i].ok
                        /\ attempt_base(i) = request_groups[k].base_name
                        /\ attempt_segment(i) = idx

\* the attempts that downloaded a main model file
main_downloads ==
    {i \in DOMAIN attempts : attempts[i].ok /\ is_main_model_file(attempts[i].file)}

\* C5: a finished request saves provenance at most once, and when a main
\* model file was downloaded it saves it exactly once, for the first such
\* file, on the direct and on the segmented path.
C5_OneSidecarForFirstMainFile ==
    pc = "done" =>
        /\ Len(sidecars) <= 1
        /\ main_downloads # {} =>
            /\ Len(sidecars) = 1
            /\ sidecars[1].artifact = attempts[Min(main_downloads)].dest

\* C6: the members of a group are attempted in ascending index order; a
\* failed member ends its group with failure, no later member of the group
\* is attempted, and every member downloaded stays on disk.
C6_SegmentsInOrderFailFast ==
    on_segmented_path =>
        /\ \A i, j \in DOMAIN attempts :
                (i < j /\ same_group(i, j)) => attempt_segment(i) <= attempt_segment(j)
        /\ \A i \in DOMAIN attempts :
                ~attempts[i].ok =>
                    /\ \A j \in DOMAIN attempts : j > i => ~same_group(i, j)
                    /\ LET k == group_index(request_groups, attempt_base(i))
                       IN  k \in DOMAIN group_results /\ ~group_results[k]
        /\ \A i \in DOMAIN attempts : attempts[i].ok => on_disk(i)

\* a group of three members whose second download failed: the first is on
\* disk, the third was never attempted, the request returned failure
C6_Witness ==
    /\ on_segmented_path
    /\ pc = "done"
    /\ req.listing[1] = F_seg2
    /\ Len(request_groups) = 1
    /\ Len(request_groups[1].files) = 3
    /\ Len(attempts) = 2
    /\ attempts[1].ok
    /\ on_disk(1)
    /\ ~attempts[2].ok
    /\ attempt_segment(2) < 2
    /\ F_seg2 \notin attempted_files
    /\ group_results = <<FALSE>>
    /\ result = "failed"

----------------------------------------------------------------------------
(* Properties of parse_civitai_url *)

\* C8: a URL of the form civitai.com/models/<id>/<slug>/versions/<vid> is
\* parsed by the version pattern: the result holds model_id = id and
\* version_id = vid with url_type 'version', never the result of the model
\* pattern.
C8_VersionUrlPrecedence ==
    (call.fn = "parse_civitai_url" /\ pc = "done" /\ call.form = "version") =>
        ret = [parsed |-> TRUE, model_id |-> int(call.id),
               version_id |-> int(call.vid), url_type |-> "version"]

\* a version URL behind an item URL that the model pattern would match with
\* another id has been parsed
C8_Witness ==
    /\ call.fn = "parse_civitai_url"
    /\ pc = "done"
    /\ call.form = "version"
    /\ call.url = version_url(P_item, N_12, S_mark, N_45, S_query)
    /\ model_pattern_search(normalize_url(call.url)).model_id = 5
    /\ ret.url_type = "version"
    /\ ret.model_id = 12
    /\ ret.version_id = 45

----------------------------------------------------------------------------
(* Properties of the classifiers *)

\* the categories determine_model_type names
civitai_categories ==
    {MODEL_TYPE_MAPPING[t] : t \in DOMAIN MODEL_TYPE_MAPPING}
        \cup {"checkpoints", "loras", "vae", "controlnet", "upscale_models",
              "embeddings", "hypernetworks"}

\* C9: determine_model_type returns one category for every type tag and file
\* name, the empty ones included, and for a type tag of MODEL_TYPE_MAPPING it
\* returns the category the table maps the tag to, whatever the file name.
C9_TableOverridesFilename ==
    (call.fn = "determine_model_type" /\ pc = "done") =>
        /\ ret.category \in civitai_categories
        /\ call.type_tag \in DOMAIN MODEL_TYPE_MAPPING
                => ret.category = MODEL_TYPE_MAPPING[call.type_tag]

\* type tag 'VAE' with a file name whose keywords say lora has been
\* classified as vae
C9_Witness ==
    /\ call.fn = "determine_model_type"
    /\ pc = "done"
    /\ call.type_tag = "VAE"
    /\ call.filename = join_words(<<W_checkpoint, K_lora>>) \o X_pt
    /\ filename_model_type(call.filename) = "loras"
    /\ ret.category = "vae"

\* the keyword groups in the order vae/autoencoder, lora, controlnet,
\* upscaler, embedding/textual-inversion, hypernetwork: the category of the
\* first group with a keyword in the lowercased file name
ordered_keyword_category(filename) ==
    LET filename_lower == lower(filename)
    IN  IF any_in(filename_lower, {K_vae, K_autoencoder}) THEN "vae"
        ELSE IF any_in(filename_lower, {K_lora}) THEN "loras"
        ELSE IF any_in(filename_lower, {K_controlnet}) THEN "controlnet"
        ELSE IF any_in(filename_lower, {K_upscaler}) THEN "upscale_models"
        ELSE IF any_in(filename_lower, {K_embedding, K_textual_inversion})
             THEN "embeddings"
        ELSE IF any_in(filename_lower, {K_hypernetwork}) THEN "hypernetworks"
        ELSE "checkpoints"

\* C10: with a type tag MODEL_TYPE_MAPPING lacks, determine_model_type
\* returns the category of the first keyword group, in the order
\* vae/autoencoder, lora, controlnet, upscaler, embedding/textual-inversion,
\* hypernetwork, that has a keyword in the lowercased file name; and a file
\* name that holds both 'vae' and 'lora' is classified as vae by
\* determine_model_type and by get_file_destination_directory.
C10_KeywordOrder ==
    pc = "done" =>
        /\ (call.fn = "determine_model_type"
                /\ call.type_tag \notin DOMAIN MODEL_TYPE_MAPPING)
            => ret.category = ordered_keyword_category(call.filename)
        /\ (call.fn = "get_file_destination_directory"
                /\ contains(lower(call.filename), K_vae)
                /\ contains(lower(call.filename), K_lora))
            => ret.category = "vae"

----------------------------------------------------------------------------
(* Calls of detect_segmented_models *)

\* the most file names one detect_segmented_models call is given
MaxNames == 3

D_tot3 == <<"m","-","0","0","0","0","1","-","o","f","-","0","0","0","0","3",".","s","a","f","e","t","e","n","s","o","r","s">>
D_other == <<"n","-","0","0","0","0","2","-","o","f","-","0","0","0","0","2",".","s","a","f","e","t","e","n","s","o","r","s">>
D_four == <<"m","-","0","0","0","1","-","o","f","-","0","0","0","0","2",".","s","a","f","e","t","e","n","s","o","r","s">>
D_six == <<"m","-","0","0","0","0","0","1","-","o","f","-","0","0","0","0","2",".","s","a","f","e","t","e","n","s","o","r","s">>
D_sixtotal == <<"m","-","0","0","0","0","1","-","o","f","-","0","0","0","0","0","2",".","s","a","f","e","t","e","n","s","o","r","s">>
D_noprefix == <<"-","0","0","0","0","1","-","o","f","-","0","0","0","0","2",".","s","a","f","e","t","e","n","s","o","r","s">>
D_targz == <<"m","-","0","0","0","0","1","-","o","f","-","0","0","0","0","2",".","t","a","r",".","g","z">>
D_noext == <<"m","-","0","0","0","0","1","-","o","f","-","0","0","0","0","2",".">>

\* file names given to detect_segmented_models: segments of one base with
\* the same and with another extension, the same index with another total,
\* another base, four and six digits, no prefix, no extension, a dotted
\* extension, and a name that is no segment at all
SegmentNames ==
    {F_seg1, F_seg2, F_seg1bin, D_tot3, D_other, D_four, D_six, D_sixtotal,
     D_noprefix, D_targz, D_noext, F_main}

\* the lists of up to MaxNames names; a name may be given twice
DetectCalls ==
    [fn : {"detect_segmented_models"},
     files : UNION {[1..n -> SegmentNames] : n \in 0..MaxNames}]

\* a call of HuggingFaceModelManager.detect_segmented_models returns
detect_call ==
    /\ pc = "start"
    /\ call.fn = "detect_segmented_models"
    /\ ret' = [groups |-> detect_segmented_models(call.files)]
    /\ pc' = "done"
    /\ UNCHANGED <<call, source, req>>
    /\ UNCHANGED request_vars
    /\ UNCHANGED cli_vars
    /\ UNCHANGED wait_vars

InitDetect ==
    /\ source = "none"
    /\ req = NoCall
    /\ pc = "start"
    /\ request_idle
    /\ cli_idle
    /\ wait_idle
    /\ call \in DetectCalls
    /\ ret = NoCall

NextDetect == detect_call

SpecDetect == InitDetect /\ [][NextDetect]_vars

----------------------------------------------------------------------------
(* Properties of detect_segmented_models *)

\* the call of detect_segmented_models has returned
detected == call.fn = "detect_segmented_models" /\ pc = "done"

\* the positions of the given list whose name is of the form
\* <prefix>-<5 digits>-of-<5 digits>.<ext>: a prefix that is not empty and
\* an extension that is not empty and holds no '.'
segment_shaped(f) ==
    \E p \in 2..Len(f) :
        /\ Len(f) >= p + 16
        /\ f[p] = "-"
        /\ \A i \in (p + 1)..(p + 5) : is_digit(f[i])
        /\ SubSeq(f, p + 6, p + 9) = K_of
        /\ \A i \in (p + 10)..(p + 14) : is_digit(f[i])
        /\ f[p + 15] = "."
        /\ \A i \in (p + 16)..Len(f) : f[i] # "."

\* the extension and the base name of a name of that form
shaped_extension(f) == SubSeq(f, Max(positions(f, ".")) + 1, Len(f))
shaped_base(f) == SubSeq(f, 1, Len(f) - 16 - Len(shaped_extension(f)))

given_matching == {i \in DOMAIN call.files : segment_shaped(call.files[i])}

\* every given name is of the segment form, with one base and one extension
one_base_and_extension ==
    /\ call.files # <<>>
    /\ given_matching = DOMAIN call.files
    /\ \A i, j \in DOMAIN call.files :
            /\ shaped_base(call.files[i]) = shaped_base(call.files[j])
            /\ shaped_extension(call.files[i]) = shaped_extension(call.files[j])

\* the segment indexes of the members of group g, in member order
member_segments(g) == [i \in DOMAIN g.files |-> g.files[i].segment]

strictly_increasing(q) == \A i, j \in DOMAIN q : i < j => q[i] < q[j]
non_decreasing(q) == \A i, j \in DOMAIN q : i < j => q[i] <= q[j]

\* C11: for a list of segment names of one base and one extension,
\* detect_segmented_models returns one group whose members are strictly
\* increasing in segment index and as many as the names given, a name given
\* twice and one index given with two totals included.
C11_StrictlyIncreasingMembers ==
    (detected /\ one_base_and_extension) =>
        /\ Len(ret.groups) = 1
        /\ strictly_increasing(member_segments(ret.groups[1]))
        /\ Len(ret.groups[1].files) = Len(call.files)

\* C11 as the code has it: one group with as many members as names given,
\* ordered by segment index with equal indexes side by side in the order
\* given; strictly increasing when no index is given twice.
C11_MembersSortedAndCounted ==
    (detected /\ one_base_and_extension) =>
        /\ Len(ret.groups) = 1
        /\ non_decreasing(member_segments(ret.groups[1]))
        /\ Len(ret.groups[1].files) = Len(call.files)
        /\ (\A i, j \in DOMAIN call.files :
                i # j => segment_match(call.files[i]).segment
                            # segment_match(call.files[j]).segment)
            => strictly_increasing(member_segments(ret.groups[1]))

\* segment 2, then segment 1 with another total, then segment 1 again: the
\* group holds the three, both names of index 1 ahead of index 2
C11_Witness ==
    /\ detected
    /\ one_base_and_extension
    /\ call.files = <<F_seg2, D_tot3, F_seg1>>
    /\ Len(ret.groups) = 1
    /\ [i \in 1..3 |-> ret.groups[1].files[i].file] = <<D_tot3, F_seg1, F_seg2>>

\* the files of the members of group g
member_files(g) == {g.files[i].file : i \in DOMAIN g.files}

\* the two names are members of one group of the result
grouped_together(f1, f2) ==
    \E k \in DOMAIN ret.groups :
        f1 \in member_files(ret.groups[k]) /\ f2 \in member_files(ret.groups[k])

\* C12: two segment names are in one group exactly when they have the same
\* base name and the same extension, so one base with two extensions gives
\* two groups, and every member of a group has the extension recorded for
\* the group.
C12_GroupedByBaseAndExtension ==
    detected =>
        /\ \A i, j \in given_matching :
                grouped_together(call.files[i], call.files[j])
                    <=> /\ shaped_base(call.files[i]) = shaped_base(call.files[j])
                        /\ shaped_extension(call.files[i])
                                = shaped_extension(call.files[j])
        /\ \A k \in DOMAIN ret.groups :
                \A f \in member_files(ret.groups[k]) :
                    shaped_extension(f) = ret.groups[k].extension

\* the names that are members of some group of the result
grouped_files == UNION {member_files(ret.groups[k]) : k \in DOMAIN ret.groups}

\* C13: detect_segmented_models puts a name into a group exactly when the
\* name ends with -<index>-of-<total>.<ext>, index and total of five digits
\* each (not four, not six), after a prefix that is not empty; a name that
\* does not match is in no group.
C13_FiveDigitGrammar ==
    detected =>
        /\ \A i \in DOMAIN call.files :
                call.files[i] \in grouped_files <=> segment_shaped(call.files[i])
        /\ grouped_files \subseteq {call.files[i] : i \in DOMAIN call.files}

\* a four-digit index, a six-digit index and a name without prefix given
\* with one segment: the result holds the segment alone
C13_Witness ==
    /\ detected
    /\ call.files \in {<<D_four, F_seg1, D_six>>, <<D_noprefix, F_seg1, D_sixtotal>>}
    /\ grouped_files = {F_seg1}
    /\ Len(ret.groups) = 1

----------------------------------------------------------------------------
(* Properties of the requests: lookups and early returns *)

\* the URL of the request names a version to download and no model
download_only_url ==
    /\ source = "civitai"
    /\ parse_civitai_url(req.url)
            = [parsed |-> TRUE, model_id |-> None, version_id |-> 34,
               url_type |-> "download"]

\* the version lookup of download_from_url failed, or held no model id
lookup_unresolved ==
    error \in {"Could not get version info",
               "Could not determine model ID from version"}

\* C14: for a download-only Civitai URL the parser gives the version id and
\* no model id, download_from_url looks the version up before any model
\* lookup and any download, and when that lookup fails or holds no model id
\* the request fails with no download attempted and no file written.
C14_DownloadUrlResolvedFirst ==
    (source = "civitai" /\ req.url = U_download) =>
        /\ download_only_url
        /\ pc # "start" =>
            /\ api_calls # <<>>
            /\ api_calls[1] = "get_model_version_info"
            /\ "get_model_info" \in {api_calls[i] : i \in DOMAIN api_calls}
                    => api_calls[2] = "get_model_info"
        /\ lookup_unresolved =>
            /\ pc = "done"
            /\ result = "failed"
            /\ api_calls = <<"get_model_version_info">>
            /\ attempts = <<>>
            /\ disk = {}
            /\ sidecars = <<>>

\* a download URL whose version lookup answered without a model id: the
\* request is over, failed, with that one lookup made and nothing downloaded
C14_Witness ==
    /\ download_only_url
    /\ pc = "done"
    /\ error = "Could not determine model ID from version"
    /\ api_calls = <<"get_model_version_info">>
    /\ result = "failed"
    /\ attempts = <<>>

\* the returns taken when the URL does not parse, a lookup at the remote
\* service fails, or the file list is empty
abort_reasons ==
    {"Invalid Civitai URL", "Could not get version info",
     "Could not determine model ID from version",
     "Could not determine model ID from URL", "Failed to get model info",
     "No versions found for model", "Failed to get version info",
     "No files found for model version", "Could not get repository information",
     "No files found in repository", "No model files found in repository"}

\* C15: when the URL does not parse, or the model, version or repository
\* lookup fails, or the file list is empty, the request returns failure and
\* has started no transfer and written no file and no sidecar, in the
\* Civitai and in the Hugging Face pipeline.
C15_EarlyAbortWritesNothing ==
    (source \in {"civitai", "hf"} /\ error \in abort_reasons) =>
        /\ pc = "done"
        /\ result = "failed"
        /\ attempts = <<>>
        /\ disk = {}
        /\ sidecars = <<>>

\* a repository that lists files none of which is a model file, and a
\* Civitai URL that does not parse: both requests ended with nothing done
C15_Witness ==
    /\ pc = "done"
    /\ result = "failed"
    /\ attempts = <<>>
    /\ disk = {}
    /\ \/ /\ source = "hf"
          /\ req.listing = <<F_readme>>
          /\ error = "No model files found in repository"
       \/ /\ source = "civitai"
          /\ req.url = U_bad
          /\ error = "Invalid Civitai URL"

----------------------------------------------------------------------------
(* ModelDownloader.download_file and                                       *)
(* AdvancedModelDownloader.download_file_with_progress                     *)

H_ab == <<"a","b">>
H_AB == <<"A","B">>
H_cd == <<"c","d">>

\* hashlib.sha256(...).hexdigest() of the bytes the URL serves, shortened
\* to two hexadecimal digits
Digests == {H_ab, H_cd}

\* the expected_hash argument: None, '' or a hexadecimal string
ExpectedHashes ==
    {[given |-> FALSE, value |-> <<>>]}
        \cup [given : {TRUE}, value : {<<>>, H_ab, H_AB, H_cd}]

\* 'max_retries' of the default configuration
DefaultMaxRetries == 3

\* download_file(url, destination, expected_hash) of ModelDownloader and
\* download_file_with_progress of AdvancedModelDownloader, with the
\* 'verify_hashes' entry of the configuration, REQUESTS_AVAILABLE, and the
\* digest of what the URL serves
UrlRequests ==
    [downloader : {"basic", "advanced"}, expected_hash : ExpectedHashes,
     verify_hashes : BOOLEAN, requests_available : BOOLEAN, digest : Digests,
     filename : {F_main}, max_retries : {0, DefaultMaxRetries}]

\* 'if expected_hash': None and '' are both false
hash_given(expected_hash) == expected_hash.given /\ expected_hash.value # <<>>

\* whether the downloader verifies: ModelDownloader.download_file whenever a
\* hash is given, _download_with_requests and _download_with_urllib only if
\* the configuration has 'verify_hashes' set as well
verifies_hash(r) ==
    /\ hash_given(r.expected_hash)
    /\ r.downloader = "advanced" => r.verify_hashes

\* verify_file_hash(file_path, expected_hash): file_hash is the digest of
\* the file read back, readable is FALSE when reading it raised
verify_file_hash(file_hash, expected_hash, readable) ==
    readable /\ lower(file_hash) = lower(expected_hash)

\* how the transfer of the file can end: all bytes written, an error before
\* the destination was opened, an error after part of it was written
TransferOutcomes == {"ok", "raised", "raised_midway"}

\* urlretrieve / the loop over iter_content write the destination in place
url_transfer_disk(d, destination, filename, outcome) ==
    IF outcome = "raised" THEN d
    ELSE {e \in d : e.path # destination}
            \cup {[path |-> destination, content |-> filename,
                   complete |-> outcome = "ok"]}

\* the transfer started again while the configuration allows another try
retry_while_allowed(max_retries, tried) == tried <= max_retries

\* whether a failed transfer is started again: _download_with_requests and
\* _download_with_urllib return False from their except clause, and nothing
\* reads 'max_retries'
retry_transfer(max_retries, tried) == FALSE

\* the download of the file: the transfer, and the return when it failed or
\* when no verification follows
url_transfer ==
    /\ source = "url"
    /\ pc = "start"
    /\ \E outcome \in TransferOutcomes :
        LET destination == Path("checkpoints", req.filename)
        IN  /\ attempts' = Append(attempts, [file |-> req.filename,
                                             dest |-> destination,
                                             ok |-> outcome = "ok"])
            /\ disk' = url_transfer_disk(disk, destination, req.filename, outcome)
            /\ IF outcome # "ok"
               THEN IF retry_transfer(req.max_retries, Len(attempts) + 1)
                    THEN UNCHANGED <<pc, result>>
                    ELSE pc' = "done" /\ result' = "failed"
               ELSE IF verifies_hash(req)
               THEN pc' = "verify" /\ UNCHANGED result
               ELSE pc' = "done" /\ result' = "ok"
    /\ UNCHANGED <<source, req, call, ret, model_dir, segmented_models, seg_pos,
                   downloaded_files, model_files, file_pos, success,
                   downloaded_main_model, group_results, sidecars, error, api_calls>>
    /\ UNCHANGED cli_vars
    /\ UNCHANGED wait_vars

\* the verification of the downloaded file and the return
url_verify_hash ==
    /\ source = "url"
    /\ pc = "verify"
    /\ \E readable \in BOOLEAN :
        result' = Outcome(verify_file_hash(req.digest, req.expected_hash.value,
                                           readable))
    /\ pc' = "done"
    /\ UNCHANGED <<source, req, call, ret, model_dir, segmented_models, seg_pos,
                   downloaded_files, model_files, file_pos, success,
                   downloaded_main_model, attempts, group_results, disk, sidecars,
                   error, api_calls>>
    /\ UNCHANGED cli_vars
    /\ UNCHANGED wait_vars

InitUrl ==
    /\ source = "url"
    /\ req \in UrlRequests
    /\ pc = "start"
    /\ request_idle
    /\ cli_idle
    /\ wait_idle
    /\ call = NoCall
    /\ ret = NoCall

NextUrl ==
    \/ url_transfer
    \/ url_verify_hash

SpecUrl == InitUrl /\ [][NextUrl]_vars

----------------------------------------------------------------------------
(* Properties of the download by URL *)

\* the file of the request is on disk, whole
downloaded_whole ==
    [path |-> Path("checkpoints", req.filename), content |-> req.filename,
     complete |-> TRUE] \in disk

\* C16: when the caller gave an expected hash and the SHA-256 digest of the
\* downloaded bytes differs from it, letter case aside, the download is
\* reported as failed, the file stays at the destination and no sidecar is
\* written; for download_file and for download_file_with_progress, whatever
\* the configuration.
C16_HashMismatchFails ==
    (/\ source = "url"
     /\ pc = "done"
     /\ attempts # <<>>
     /\ attempts[1].ok
     /\ hash_given(req.expected_hash)
     /\ lower(req.digest) # lower(req.expected_hash.value))
        => /\ result = "failed"
           /\ downloaded_whole
           /\ sidecars = <<>>

\* the downloadable files of the manifest the request resolved: the files
\* of the version (Civitai), the files listed for the repository that have
\* a supported extension (Hugging Face)
manifest_files ==
    IF source = "civitai" THEN {model_files[i] : i \in DOMAIN model_files}
    ELSE {req.listing[i] : i \in {n \in DOMAIN req.listing :
            \E ext \in hf_supported_extensions :
                endswith(lower(req.listing[n]), ext)}}

\* the request ran to its end without an early return
ran_to_end == pc = "done" /\ error = ""

\* C17: when no segment group is found among the names of the manifest, the
\* request attempts the download of every file of the manifest: every file
\* of the resolved version (Civitai), every file listed for the repository
\* (Hugging Face).
C17_EveryManifestFileAttempted ==
    (/\ source \in {"civitai", "hf"}
     /\ ran_to_end
     /\ source = "hf" => request_groups = <<>>)
        => manifest_files \subseteq attempted_files

----------------------------------------------------------------------------
(* The commands: batch-download and download of download_models_advanced.py,*)
(* and the run of advanced_workflow_tester.py                              *)

\* the most entries of a batch configuration, and results of a tester run
MaxEntries == 3

\* the exit statuses of the commands
ExitSuccess == 0
ExitFailure == 1
ExitPartial == 2

\* the entries of the 'downloads' list by what batch_download does with
\* them: a 'huggingface' entry, a 'url' entry, a 'url' entry whose model
\* type get_model_directory does not know, an entry of another source
EntryKinds == {"huggingface", "url", "url_unknown_type", "other"}

\* batch-download commands: whether the configuration file loads, and its
\* 'downloads' list
BatchRequests ==
    {[readable |-> FALSE, downloads |-> <<>>]}
        \cup [readable : {TRUE},
              downloads : UNION {[1..n -> EntryKinds] : n \in 0..MaxEntries}]

\* runs of the workflow tester: the success of each test, in order
TesterRequests ==
    [results : UNION {[1..n -> BOOLEAN] : n \in 1..MaxEntries}]

\* download commands of download_models_advanced.py with --source
\* huggingface
DownloadCommands ==
    {r \in AdvRequests : r.filename = <<>> /\ r.known = AllCategories}

\* the batch taken as successful once any entry was
batch_result_any_success(count, total_count) == count > 0

\* 'return success_count == total_count' of batch_download
batch_result(count, total_count) == count = total_count

\* batch_download up to its loop: the configuration is loaded, and a list
\* that is missing or empty is an error
batch_download ==
    /\ source = "batch"
    /\ pc = "start"
    /\ IF ~req.readable \/ req.downloads = <<>>
       THEN pc' = "returned" /\ result' = "failed"
       ELSE pc' = "loop" /\ UNCHANGED result
    /\ UNCHANGED wait_vars
    /\ UNCHANGED <<source, req, call, ret, success_count, entry_results, exit_code>>
    /\ UNCHANGED <<model_dir, segmented_models, seg_pos, downloaded_files,
                   model_files, file_pos, success, downloaded_main_model, attempts,
                   group_results, disk, sidecars, error, api_calls>>

\* what one entry can return: download_from_huggingface and
\* download_file_with_progress return True or False, get_model_directory
\* raises for an unknown model type, another source is logged and skipped
entry_returns(kind) ==
    IF kind \in {"huggingface", "url"} THEN {"True", "False"}
    ELSE IF kind = "url_unknown_type" THEN {"raised"}
    ELSE {"skipped"}

\* one iteration of the loop of batch_download, with the return after the
\* last entry and the return of the except clause
batch_entry ==
    /\ source = "batch"
    /\ pc = "loop"
    /\ LET i == Len(entry_results) + 1
           kind == req.downloads[i]
       IN  \E returned \in entry_returns(kind) :
            LET count == IF returned = "True" THEN success_count + 1
                         ELSE success_count
            IN  /\ entry_results' = Append(entry_results,
                                           [kind |-> kind, returned |-> returned])
                /\ success_count' = count
                /\ IF returned = "raised"
                   THEN pc' = "returned" /\ result' = "failed"
                   ELSE IF i = Len(req.downloads)
                   THEN /\ pc' = "returned"
                        /\ result' = Outcome(batch_result(count, Len(req.downloads)))
                   ELSE UNCHANGED <<pc, result>>
    /\ UNCHANGED wait_vars
    /\ UNCHANGED <<source, req, call, ret, exit_code>>
    /\ UNCHANGED <<model_dir, segmented_models, seg_pos, downloaded_files,
                   model_files, file_pos, success, downloaded_main_model, attempts,
                   group_results, disk, sidecars, error, api_calls>>

\* main, command batch-download: sys.exit(1) if batch_download returned
\* False, else the process ends with status 0
cli_batch_exit ==
    /\ source = "batch"
    /\ pc = "returned"
    /\ exit_code' = IF result = "ok" THEN ExitSuccess ELSE ExitFailure
    /\ pc' = "exited"
    /\ UNCHANGED wait_vars
    /\ UNCHANGED <<source, req, call, ret, success_count, entry_results>>
    /\ UNCHANGED <<model_dir, segmented_models, seg_pos, downloaded_files,
                   model_files, file_pos, success, downloaded_main_model, attempts,
                   group_results, disk, sidecars, result, error, api_calls>>

\* main, command download: sys.exit(1) if the download returned False
cli_download_exit ==
    /\ source = "advanced"
    /\ pc = "done"
    /\ exit_code' = IF result = "ok" THEN ExitSuccess ELSE ExitFailure
    /\ pc' = "exited"
    /\ UNCHANGED wait_vars
    /\ UNCHANGED <<source, req, call, ret, success_count, entry_results>>
    /\ UNCHANGED <<model_dir, segmented_models, seg_pos, downloaded_files,
                   model_files, file_pos, success, downloaded_main_model, attempts,
                   group_results, disk, sidecars, result, error, api_calls>>

\* sum(1 for r in results if r.success)
successful_tests(results) ==
    Cardinality({i \in DOMAIN results : results[i]})

\* the exit status main of advanced_workflow_tester.py chooses
tester_exit_code(successful, total_tests) ==
    IF successful = total_tests THEN ExitSuccess
    ELSE IF successful > 0 THEN ExitPartial
    ELSE ExitFailure

\* main of advanced_workflow_tester.py after run_comprehensive_test
tester_main ==
    /\ source = "tester"
    /\ pc = "start"
    /\ exit_code' = tester_exit_code(successful_tests(req.results),
                                     Len(req.results))
    /\ pc' = "exited"
    /\ UNCHANGED wait_vars
    /\ UNCHANGED <<source, req, call, ret, success_count, entry_results>>
    /\ UNCHANGED <<model_dir, segmented_models, seg_pos, downloaded_files,
                   model_files, file_pos, success, downloaded_main_model, attempts,
                   group_results, disk, sidecars, result, error, api_calls>>

InitCli ==
    /\ \/ source = "batch" /\ req \in BatchRequests
       \/ source = "advanced" /\ req \in DownloadCommands
       \/ source = "tester" /\ req \in TesterRequests
    /\ pc = "start"
    /\ request_idle
    /\ cli_idle
    /\ wait_idle
    /\ call = NoCall
    /\ ret = NoCall

NextCli ==
    \/ batch_download
    \/ batch_entry
    \/ cli_batch_exit
    \/ adv_download_from_huggingface
    \/ adv_download_file
    \/ cli_download_exit
    \/ tester_main

SpecCli == InitCli /\ [][NextCli]_vars

----------------------------------------------------------------------------
(* Properties of the commands *)

\* the entries processed so far are the first entries of the list, in order
processed_in_order ==
    /\ Len(entry_results) <= Len(req.downloads)
    /\ \A i \in DOMAIN entry_results : entry_results[i].kind = req.downloads[i]

\* the entries whose download returned True
succeeded_entries == {i \in DOMAIN entry_results : entry_results[i].returned = "True"}

\* an entry of the list has failed: it returned False, raised, was skipped,
\* or was never reached
some_entry_failed == Cardinality(succeeded_entries) < Len(req.downloads)

\* C18: batch_download processes the entries one at a time in list order,
\* counts an entry only when its download returned success, returns true
\* exactly when the count equals the number of entries (of a configuration
\* that loads), and the command exits with a status other than 0 whenever
\* an entry failed.
C18_BatchCountsAndExits ==
    source = "batch" =>
        /\ processed_in_order
        /\ success_count = Cardinality(succeeded_entries)
        /\ (req.readable /\ pc \in {"returned", "exited"})
            => (result = "ok" <=> success_count = Len(req.downloads))
        /\ (pc = "exited" /\ some_entry_failed) => exit_code # ExitSuccess

\* C18 as the code has it: a list with no entry (or a configuration that
\* does not load) makes batch_download return false although count and
\* number of entries are both 0; for a list with entries the claim holds.
C18_BatchCountsAndExitsNonEmpty ==
    source = "batch" =>
        /\ processed_in_order
        /\ success_count = Cardinality(succeeded_entries)
        /\ pc \in {"returned", "exited"}
            => (result = "ok" <=> /\ req.downloads # <<>>
                                  /\ success_count = Len(req.downloads))
        /\ (pc = "exited" /\ some_entry_failed) => exit_code # ExitSuccess
        /\ (pc = "exited" /\ req.downloads = <<>>) => exit_code = ExitFailure

\* three entries of which the second returned False: all three were
\* processed in order, two are counted, the command exited with status 1
C18_Witness ==
    /\ source = "batch"
    /\ pc = "exited"
    /\ req.downloads = <<"url", "huggingface", "url">>
    /\ [i \in 1..3 |-> entry_results[i].returned] = <<"True", "False", "True">>
    /\ success_count = 2
    /\ result = "failed"
    /\ exit_code = ExitFailure

\* the items of the command that exited and those that succeeded: the
\* entries of the batch, the files of the download, the tests of the tester
item_count ==
    IF source = "batch" THEN Len(req.downloads)
    ELSE IF source = "tester" THEN Len(req.results)
    ELSE Len(attempts)

item_successes ==
    IF source = "batch" THEN Cardinality(succeeded_entries)
    ELSE IF source = "tester" THEN successful_tests(req.results)
    ELSE Cardinality({i \in DOMAIN attempts : attempts[i].ok})

full_success == item_count > 0 /\ item_successes = item_count
partial_success == 0 < item_successes /\ item_successes < item_count
total_failure == item_successes = 0

\* C19: every command maps its outcome to three distinct exit statuses, one
\* for full success, one for partial success and one for total failure:
\* with 0 the status of full success and 1 that of total failure, a partial
\* success exits with a status that is neither; for the batch-download and
\* the download command as for the workflow tester.
C19_ThreeExitCodes ==
    (source \in {"batch", "advanced", "tester"} /\ pc = "exited") =>
        /\ full_success => exit_code = ExitSuccess
        /\ total_failure => exit_code = ExitFailure
        /\ partial_success => exit_code \notin {ExitSuccess, ExitFailure}

\* the request returned before any transfer
nothing_attempted == pc = "done" /\ attempts = <<>>

\* the request transferred files, some with success and some without
attempted_with_partial_failure ==
    /\ pc = "done"
    /\ \E i \in DOMAIN attempts : attempts[i].ok
    /\ \E i \in DOMAIN attempts : ~attempts[i].ok

\* C20: what the request returns tells apart nothing attempted, attempted
\* with partial failure, and fully succeeded: a request that gave up before
\* any transfer returns False, and a request that transferred files and
\* failed for some of them never returns that same value.
C20_EarlyAbortDistinctFromPartial ==
    source \in {"hf", "civitai"} =>
        /\ nothing_attempted => result = "failed"
        /\ attempted_with_partial_failure => result # "failed"

-----------------------------------------------------------------------------
(* download_model on repositories that hold several segment groups *)

F_n1 == <<"n","-","0","0","0","0","1","-","o","f","-","0","0","0","0","1",".","s","a","f","e","t","e","n","s","o","r","s">>
F_seg2of3 == <<"m","-","0","0","0","0","2","-","o","f","-","0","0","0","0","3",".","s","a","f","e","t","e","n","s","o","r","s">>

\* segment files of two base names, one of them with a member that records
\* another total, and a file outside every group
GroupFiles == {F_seg1, F_seg2, F_seg2of3, F_n1, F_main}

GroupListings == UNION {distinct_seqs(GroupFiles, n) : n \in 1..MaxFiles}

GroupRequests ==
    [repo_id : {R_flux}, tags : {<<>>}, tags_none : {FALSE}, card : {<<>>},
     listing : GroupListings, custom_dir : BOOLEAN, known : {AllCategories}]

InitGroups ==
    /\ source = "hf"
    /\ req \in GroupRequests
    /\ pc = "start"
    /\ request_idle
    /\ cli_idle
    /\ wait_idle
    /\ call = NoCall
    /\ ret = NoCall

NextGroups ==
    \/ hf_download_model
    \/ hf_download_segment
    \/ hf_download_direct

SpecGroups == InitGroups /\ [][NextGroups]_vars

\* the request went down the segmented path and has returned
segmented_done ==
    /\ pc = "done"
    /\ request_groups # <<>>
    /\ api_calls = hf_api_calls(TRUE)
    /\ error = ""

\* the g-th group had one of its members requested
group_attempted(g) ==
    \E i \in DOMAIN attempts :
        \E k \in DOMAIN request_groups[g].files :
            attempts[i].file = request_groups[g].files[k].file

totals_disagree(g) ==
    \E i, j \in DOMAIN request_groups[g].files :
        request_groups[g].files[i].total # request_groups[g].files[j].total

\* C26: a segment group whose members disagree on the total number of
\* segments ends in failure, never as a complete group downloaded with
\* success.
C26_DisagreeingTotalsFail ==
    (source = "hf" /\ request_groups # <<>>) =>
        \A g \in DOMAIN group_results : totals_disagree(g) => ~group_results[g]

\* the sidecar of the artifact just downloaded could not be written
sidecar_failed_now ==
    /\ Len(sidecars') = Len(sidecars) + 1
    /\ ~sidecars'[Len(sidecars')].written

\* the file the last attempt downloaded is whole at its destination
last_artifact_in_place ==
    /\ attempts' # <<>>
    /\ attempts'[Len(attempts')].ok
    /\ sidecars'[Len(sidecars')].artifact = attempts'[Len(attempts')].dest
    /\ [path |-> attempts'[Len(attempts')].dest,
        content |-> attempts'[Len(attempts')].file, complete |-> TRUE] \in disk'

\* the request has returned False although every transfer went through
failed_without_failed_transfer ==
    /\ pc = "done"
    /\ result = "failed"
    /\ attempts # <<>>
    /\ \A i \in DOMAIN attempts : attempts[i].ok

-----------------------------------------------------------------------------
(* download_models.py: the download command of main, download_from_url,
   download_from_huggingface and download_from_civitai of ModelDownloader *)

U_civitai_caps == <<"h","t","t","p","s",":","/","/","C","i","v","i","t","A","I",".","c","o","m","/","m","o","d","e","l","s","/","1","2">>
U_hf == <<"h","t","t","p","s",":","/","/","h","u","g","g","i","n","g","f","a","c","e",".","c","o","/","a","c","m","e","/","f","l","u","x">>
U_other == <<"h","t","t","p","s",":","/","/","e","x","a","m","p","l","e",".","c","o","m","/","w",".","c","k","p","t">>
U_both == <<"h","t","t","p","s",":","/","/","h","u","g","g","i","n","g","f","a","c","e",".","c","o","/","a","/","b","?","f","r","o","m","=","c","i","v","i","t","a","i",".","c","o","m">>

\* 'civitai.com' and 'huggingface.co' of is_civitai_url / is_huggingface_url
L_civitai_com == <<"c","i","v","i","t","a","i",".","c","o","m">>
L_huggingface_co == <<"h","u","g","g","i","n","g","f","a","c","e",".","c","o">>

\* values of --model-type, --branch and --hf-token, and the default branch
B_checkpoints == <<"c","h","e","c","k","p","o","i","n","t","s">>
B_dev == <<"d","e","v">>
B_token == <<"t","k">>
B_main == <<"m","a","i","n">>

\* an optional command line value: absent is None
Absent == [given |-> FALSE, value |-> <<>>]
Opt(v) == [given |-> TRUE, value |-> v]

\* Python's truth of an optional string: None and '' are false
truthy(o) == o.given /\ o.value # <<>>

\* command lines 'download --source url ...'
UrlCommands ==
    [source : {"url"},
     url : {Absent, Opt(U_civitai_caps), Opt(U_hf), Opt(U_other), Opt(U_both)},
     model_type : {Absent, Opt(B_checkpoints)},
     filename : {Absent, Opt(F_main)},
     hash : {Absent, Opt(H_ab), Opt(H_cd)},
     repo : {Absent}, branch : {Absent}, hf_token : {Absent},
     huggingface_url : {Absent},
     model_id : {None}, civitai_url : {Absent},
     civitai_available : BOOLEAN, hf_available : BOOLEAN, digest : Digests]

\* command lines 'download --source huggingface ...'
HFCommands ==
    [source : {"huggingface"},
     url : {Absent},
     model_type : {Absent, Opt(B_checkpoints)},
     filename : {Absent, Opt(F_main)},
     hash : {Absent},
     repo : {Absent, Opt(R_flux)},
     branch : {Absent, Opt(B_dev)},
     hf_token : {Absent, Opt(B_token)},
     huggingface_url : {Absent, Opt(U_hf)},
     model_id : {None}, civitai_url : {Absent},
     civitai_available : {TRUE}, hf_available : BOOLEAN, digest : {H_ab}]

\* command lines 'download --source civitai ...'
CivitaiCommands ==
    [source : {"civitai"},
     url : {Absent},
     model_type : {Absent},
     filename : {Absent, Opt(F_main)},
     hash : {Absent},
     repo : {Absent}, branch : {Absent}, hf_token : {Absent},
     huggingface_url : {Absent},
     model_id : {None, 12}, civitai_url : {Absent, Opt(U_civitai_caps)},
     civitai_available : BOOLEAN, hf_available : {TRUE}, digest : {H_ab}]

\* is_civitai_url(url)
is_civitai_url(url) == contains(lower(url), L_civitai_com)

\* is_huggingface_url(url)
is_huggingface_url(url) == contains(lower(url), L_huggingface_co)

\* the handler picked with the two tests the other way round
url_handler_huggingface_first(url, civitai_available, hf_available) ==
    IF hf_available /\ is_huggingface_url(url) THEN "huggingface"
    ELSE IF civitai_available /\ is_civitai_url(url) THEN "civitai"
    ELSE "generic"

\* which handler download_from_url gives the URL to
url_handler(url, civitai_available, hf_available) ==
    IF civitai_available /\ is_civitai_url(url) THEN "civitai"
    ELSE IF hf_available /\ is_huggingface_url(url) THEN "huggingface"
    ELSE "generic"

\* the expected_hash download_file receives from download_from_url, which
\* calls download_file(url, destination): the parameter keeps its default
url_expected_hash(hash) == Absent

\* the call of a manager method that main has reached
ManagerCall(fn, url, repo_id, branch, token) ==
    [fn |-> fn, url |-> url, repo_id |-> repo_id, branch |-> branch, token |-> token]

main_unchanged ==
    UNCHANGED <<source, req, model_dir, segmented_models, seg_pos, downloaded_files,
                model_files, file_pos, success, downloaded_main_model, group_results,
                sidecars, error, success_count, entry_results, elapsed, polls>>

\* main returns without a download and without sys.exit
main_returns ==
    /\ pc' = "exited"
    /\ exit_code' = ExitSuccess
    /\ UNCHANGED <<call, ret, api_calls, result, attempts, disk>>

\* a download method returns False before it reaches a handler
main_download_fails ==
    /\ pc' = "done"
    /\ result' = "failed"
    /\ UNCHANGED <<call, ret, api_calls, attempts, disk, exit_code>>

\* a download method calls a method of a manager
main_calls(c) ==
    /\ pc' = "handler"
    /\ call' = c
    /\ api_calls' = Append(api_calls, c.fn)
    /\ UNCHANGED <<ret, result, attempts, disk, exit_code>>

\* ModelDownloader.download_from_url(url, model_type, filename)
basic_download_from_url(url, model_type, filename) ==
    LET handler == url_handler(url, req.civitai_available, req.hf_available)
    IN  IF handler = "civitai"
        THEN main_calls(ManagerCall("CivitaiModelManager.download_from_url", url,
                                    <<>>, <<>>, <<>>))
        ELSE IF handler = "huggingface"
        THEN main_calls(ManagerCall("HuggingFaceModelManager.download_from_url", url,
                                    <<>>, <<>>, <<>>))
        ELSE IF ~truthy(model_type) THEN main_download_fails
        ELSE /\ pc' = "transfer"
             /\ api_calls' = Append(api_calls, "ModelDownloader.download_file")
             /\ UNCHANGED <<call, ret, result, attempts, disk, exit_code>>

\* ModelDownloader.download_from_huggingface(repo_id, branch, api_token, url),
\* the later of the two definitions of that name in the class, which is the
\* one the class keeps
basic_download_from_huggingface(repo_id, branch, api_token, url) ==
    IF ~req.hf_available THEN main_download_fails
    ELSE IF truthy(url)
    THEN main_calls(ManagerCall("HuggingFaceModelManager.download_from_url", url.value,
                                <<>>, <<>>, api_token.value))
    ELSE IF ~truthy(repo_id) THEN main_download_fails
    ELSE main_calls(ManagerCall("HuggingFaceModelManager.download_model", <<>>,
                                repo_id.value,
                                IF truthy(branch) THEN branch.value ELSE B_main,
                                api_token.value))

\* ModelDownloader.download_from_civitai(model_id, version_id, filename,
\* api_key, url)
basic_download_from_civitai(model_id, url) ==
    IF ~req.civitai_available THEN main_download_fails
    ELSE IF truthy(url)
    THEN main_calls(ManagerCall("CivitaiModelManager.download_from_url", url.value,
                                <<>>, <<>>, <<>>))
    ELSE IF falsy(model_id) THEN main_download_fails
    ELSE main_calls(ManagerCall("CivitaiModelManager.download_model", <<>>,
                                <<>>, <<>>, <<>>))

\* main, command download: the if / elif chain over args.source
main_download ==
    /\ source = "main"
    /\ pc = "start"
    /\ main_unchanged
    /\ IF req.source = "huggingface"
       THEN IF ~truthy(req.repo) THEN main_returns
            ELSE basic_download_from_huggingface(req.repo, req.model_type,
                                                 req.filename, Absent)
       ELSE IF req.source = "url"
       THEN IF ~truthy(req.url) THEN main_returns
            ELSE basic_download_from_url(req.url.value, req.model_type, req.filename)
       ELSE IF falsy(req.model_id) /\ ~truthy(req.civitai_url) THEN main_returns
            ELSE basic_download_from_civitai(req.model_id, req.civitai_url)

\* the manager method returns True or False, which the download method
\* returns to main
main_handler_returns ==
    /\ source = "main"
    /\ pc = "handler"
    /\ main_unchanged
    /\ \E returned \in BOOLEAN :
        /\ ret' = [fn |-> call.fn, returned |-> returned]
        /\ result' = Outcome(returned)
    /\ pc' = "done"
    /\ UNCHANGED <<call, api_calls, attempts, disk, exit_code>>

\* download_file(url, destination) of ModelDownloader, called by
\* download_from_url for a URL of neither site
main_download_file ==
    /\ source = "main"
    /\ pc = "transfer"
    /\ main_unchanged
    /\ \E outcome \in TransferOutcomes, readable \in BOOLEAN :
        LET name == IF truthy(req.filename) THEN req.filename.value
                    ELSE basename(req.url.value)
            destination == Path(req.model_type.value, name)
            expected_hash == url_expected_hash(req.hash)
        IN  /\ attempts' = Append(attempts, [file |-> name, dest |-> destination,
                                             ok |-> outcome = "ok"])
            /\ disk' = url_transfer_disk(disk, destination, name, outcome)
            /\ result' = IF outcome # "ok" THEN "failed"
                         ELSE IF hash_given(expected_hash)
                         THEN Outcome(verify_file_hash(req.digest,
                                                       expected_hash.value, readable))
                         ELSE "ok"
    /\ pc' = "done"
    /\ UNCHANGED <<call, ret, api_calls, exit_code>>

\* main: sys.exit(1) if the download method returned False
main_exit ==
    /\ source = "main"
    /\ pc = "done"
    /\ main_unchanged
    /\ exit_code' = IF result = "ok" THEN ExitSuccess ELSE ExitFailure
    /\ pc' = "exited"
    /\ UNCHANGED <<call, ret, api_calls, result, attempts, disk>>

InitMain ==
    /\ source = "main"
    /\ req \in UrlCommands \cup HFCommands \cup CivitaiCommands
    /\ pc = "start"
    /\ request_idle
    /\ cli_idle
    /\ wait_idle
    /\ call = NoCall
    /\ ret = NoCall

NextMain ==
    \/ main_download
    \/ main_handler_returns
    \/ main_download_file
    \/ main_exit

SpecMain == InitMain /\ [][NextMain]_vars

-----------------------------------------------------------------------------
(* Properties of the download command of download_models.py *)

\* the command has ended with a file transferred from the URL itself
url_file_transferred ==
    /\ source = "main"
    /\ pc = "exited"
    /\ req.source = "url"
    /\ attempts # <<>>

\* C23: with --source url and --hash the command ends with status 0 only if
\* the SHA-256 of the downloaded file equals the given hash (compared without
\* regard to case); a file with another digest makes the download fail.
C23_UrlHashChecked ==
    (url_file_transferred /\ truthy(req.hash)) =>
        (exit_code = ExitSuccess => lower(req.digest) = lower(req.hash.value))

\* main has gone past its dispatch for a --source huggingface command
hf_command_dispatched == source = "main" /\ pc # "start" /\ req.source = "huggingface"

\* C24: 'download --source huggingface --huggingface-url <url>' without
\* --repo reaches download_from_url of the Hugging Face manager with that
\* URL; with --repo, the branch and the token the manager gets are the
\* values of --branch and --hf-token, not those of --model-type and
\* --filename.
C24_HuggingFaceCommandArguments ==
    (hf_command_dispatched /\ req.hf_available) =>
        /\ (~truthy(req.repo) /\ truthy(req.huggingface_url)) =>
            /\ call.fn = "HuggingFaceModelManager.download_from_url"
            /\ call.url = req.huggingface_url.value
        /\ truthy(req.repo) =>
            /\ call.fn = "HuggingFaceModelManager.download_model"
            /\ call.branch = (IF truthy(req.branch) THEN req.branch.value ELSE B_main)
            /\ call.token = req.hf_token.value

\* the URLs of the commands that hold 'civitai.com' / 'huggingface.co', in
\* any case
CivitaiSiteUrls == {U_civitai_caps, U_both}
HuggingFaceSiteUrls == {U_hf, U_both}

\* the handler the URL of the command belongs to
expected_handler ==
    IF req.civitai_available /\ req.url.value \in CivitaiSiteUrls
    THEN "CivitaiModelManager.download_from_url"
    ELSE IF req.hf_available /\ req.url.value \in HuggingFaceSiteUrls
    THEN "HuggingFaceModelManager.download_from_url"
    ELSE "ModelDownloader.download_file"

\* download_from_url was called for a --source url command and has returned
url_command_returned ==
    /\ source = "main"
    /\ req.source = "url"
    /\ truthy(req.url)
    /\ pc \in {"done", "exited"}

\* C28: download_from_url gives the URL to exactly one handler, the Civitai
\* manager for a 'civitai.com' URL when that integration is available,
\* otherwise the Hugging Face manager for a 'huggingface.co' URL when that
\* integration is available, otherwise the generic downloader, which fails
\* without a transfer when no model type is given; what the handler returns
\* is what download_from_url returns.
C28_OneHandlerPerUrl ==
    url_command_returned =>
        IF expected_handler = "ModelDownloader.download_file" /\ ~truthy(req.model_type)
        THEN api_calls = <<>> /\ attempts = <<>> /\ result = "failed"
        ELSE /\ api_calls = <<expected_handler>>
             /\ expected_handler # "ModelDownloader.download_file" =>
                    /\ call.fn = expected_handler
                    /\ call.url = req.url.value
                    /\ ret.fn = expected_handler
                    /\ result = Outcome(ret.returned)
                    /\ attempts = <<>>

\* a URL of both sites, both integrations available, given to the Civitai
\* manager, which returned False
C28_Witness ==
    /\ url_command_returned
    /\ req.url.value = U_both
    /\ req.civitai_available /\ req.hf_available
    /\ api_calls = <<"CivitaiModelManager.download_from_url">>
    /\ result = "failed"

-----------------------------------------------------------------------------
(* Properties of the number of transfers *)

\* C25: within one request the transfer of a file is attempted at most once;
\* a failed transfer is not started again, whatever 'max_retries' the
\* configuration holds.
C25_NoRetry ==
    \A i, j \in DOMAIN attempts :
        (attempts[i].file = attempts[j].file /\ attempts[i].dest = attempts[j].dest)
            => i = j

\* a download that failed, with retries configured, after one transfer
C25_Witness ==
    /\ source = "url"
    /\ req.downloader = "advanced"
    /\ req.max_retries = DefaultMaxRetries
    /\ pc = "done"
    /\ result = "failed"
    /\ Len(attempts) = 1
    /\ ~attempts[1].ok

\* C27: batch_download attempts every listed entry: an entry that fails, for
\* whatever reason, is counted as not successful and the entries after it are
\* still processed.
C27_EveryEntryProcessed ==
    (source = "batch" /\ pc \in {"returned", "exited"}
     /\ req.readable /\ req.downloads # <<>>) =>
        /\ Len(entry_results) = Len(req.downloads)
        /\ success_count = Cardinality(succeeded_entries)

-----------------------------------------------------------------------------
(* Calls of detect_model_type *)

W_flux == <<"f","l","u","x">>
R_owner_vae == <<"v","a","e","/","f","l","u","x">>
R_acme == <<"a","c","m","e","/">>
W_card == <<"a"," ","c","o","n","t","r","o","l"," ","n","e","t">>

\* the words repository names are made of: patterns of the table for
\* checkpoints, loras, vae and controlnet, one in capitals, and a word that
\* holds none
RepoWords == {K_model, K_sd_, K_diffusion, K_lora, W_LoRA, K_vae, K_control, W_flux}

\* repository ids: an owner and a name of up to MaxWords words, and an id
\* whose owner holds a pattern
RepoIds ==
    {R_owner_vae}
        \cup {R_acme \o join_words(w) :
                w \in UNION {[1..n -> RepoWords] : n \in 1..MaxWords}}

\* repo_info: None (given FALSE), or what get_repo_info returned: the tags
\* (tags_none: the hub answered None for them) and str(cardData)
RepoInfos ==
    {[given |-> FALSE, tags |-> <<>>, tags_none |-> FALSE, card |-> <<>>]}
        \cup [given : {TRUE},
              tags : {<<>>, <<K_vae>>, <<W_flux, W_LoRA, K_vae>>},
              tags_none : {FALSE}, card : {<<>>, W_card}]
        \cup [given : {TRUE}, tags : {<<>>}, tags_none : {TRUE}, card : {W_card}]

DetectTypeCalls == [fn : {"detect_model_type"}, repo_id : RepoIds, repo_info : RepoInfos]

\* a call of detect_model_type returns; without repo_info the function goes
\* from the repository name to the default, as it does with no tags and no
\* card data
detect_type_call ==
    /\ pc = "start"
    /\ call.fn = "detect_model_type"
    /\ ret' = [category |-> detect_model_type(call.repo_id, call.repo_info)]
    /\ pc' = "done"
    /\ UNCHANGED <<call, source, req>>
    /\ UNCHANGED request_vars
    /\ UNCHANGED cli_vars
    /\ UNCHANGED wait_vars

InitDetectType ==
    /\ source = "none"
    /\ req = NoCall
    /\ pc = "start"
    /\ request_idle
    /\ cli_idle
    /\ wait_idle
    /\ call \in DetectTypeCalls
    /\ ret = NoCall

NextDetectType == detect_type_call

SpecDetectType == InitDetectType /\ [][NextDetectType]_vars

\* category is the category of the first entry of the table, in table order,
\* whose pattern is in text
first_entry_category(text, category) ==
    \E i \in 1..Len(MODEL_TYPE_PATTERNS) :
        /\ contains(text, MODEL_TYPE_PATTERNS[i][1])
        /\ \A j \in 1..(i - 1) : ~contains(text, MODEL_TYPE_PATTERNS[j][1])
        /\ category = MODEL_TYPE_PATTERNS[i][2]

\* some pattern of the table is in text
some_pattern_in(text) ==
    \E i \in 1..Len(MODEL_TYPE_PATTERNS) : contains(text, MODEL_TYPE_PATTERNS[i][1])

\* the lowercased repository name of the call
called_repo_name == lower(last_component(call.repo_id))

\* the tags of the call are read: repo_info is given and holds a tag list
tags_read == call.repo_info.given /\ ~call.repo_info.tags_none

\* some tag of the call holds a pattern
some_tag_matches ==
    \E t \in DOMAIN call.repo_info.tags : some_pattern_in(lower(call.repo_info.tags[t]))

\* category is that of the first tag, in tag order, that holds a pattern
first_tag_category(category) ==
    \E t \in DOMAIN call.repo_info.tags :
        /\ first_entry_category(lower(call.repo_info.tags[t]), category)
        /\ \A u \in 1..(t - 1) : ~some_pattern_in(lower(call.repo_info.tags[u]))

\* C29: detect_model_type returns the category of the first entry of
\* MODEL_TYPE_PATTERNS, in table order, whose pattern is in the lowercased
\* repository name; the tags count only when no pattern is in the name, the
\* card data only when no tag matches, and the result is 'checkpoints' when
\* nothing matches or on an error.  So a name with a checkpoint pattern
\* ('model', 'diffusion', 'sd-') and 'vae' or 'lora' gives checkpoints.
C29_FirstTableEntryWins ==
    (pc = "done" /\ call.fn = "detect_model_type") =>
        /\ some_pattern_in(called_repo_name)
            => first_entry_category(called_repo_name, ret.category)
        /\ (~some_pattern_in(called_repo_name) /\ tags_read /\ some_tag_matches)
            => first_tag_category(ret.category)
        /\ (~some_pattern_in(called_repo_name) /\ tags_read /\ ~some_tag_matches
                /\ some_pattern_in(lower(call.repo_info.card)))
            => first_entry_category(lower(call.repo_info.card), ret.category)
        /\ (~some_pattern_in(called_repo_name)
                /\ (~tags_read \/ (~some_tag_matches
                                   /\ ~some_pattern_in(lower(call.repo_info.card)))))
            => ret.category = "checkpoints"
        /\ (any_in(called_repo_name, {K_model, K_diffusion, K_sd_})
                /\ any_in(called_repo_name, {K_vae, K_lora}))
            => ret.category = "checkpoints"

\* a repository named with 'vae' before 'model', tagged vae, classified as
\* checkpoints
C29_Witness ==
    /\ pc = "done"
    /\ call.fn = "detect_model_type"
    /\ call.repo_id = R_acme \o join_words(<<K_vae, K_model>>)
    /\ call.repo_info.given
    /\ call.repo_info.tags = <<K_vae>>
    /\ ret.category = "checkpoints"

-----------------------------------------------------------------------------
(* wait_for_completion of AdvancedWorkflowTester and FlexibleWorkflowTester *)

\* the longest timeout of a wait, and the longest a poll takes, in seconds
MaxTimeout == 5
MaxPollSeconds == 1

\* time.sleep(2) after a poll that did not return
SleepSeconds == 2

\* what one GET /history/<prompt_id> can bring:
\*   raised               requests.get or response.json() raised
\*   http_error           a status code other than 200
\*   absent               the history does not hold the prompt
\*   running              'completed' is missing or false
\*   success              completed, status_str 'success'
\*   error_no_messages    completed with another status, no 'messages' key
\*   error_dict_message   ... the last of 'messages' is a dict
\*   error_list_message   ... the last of 'messages' is a list [event, data]
\*   error_empty_messages ... 'messages' is the empty list
PollAnswers ==
    {"raised", "http_error", "absent", "running", "success", "error_no_messages",
     "error_dict_message", "error_list_message", "error_empty_messages"}

\* the answers that show the prompt completed with a status other than
\* 'success'
CompletedOtherStatus ==
    {"error_no_messages", "error_dict_message", "error_list_message",
     "error_empty_messages"}

WaitRequests == [tester : {"advanced", "flexible"}, timeout : 0..MaxTimeout]

\* what the body of the loop does with the answer of the poll.  The advanced
\* tester builds its error message with
\*   status.get("messages", [{}])[-1].get("execution_error", {})
\* which raises IndexError for an empty list and AttributeError when the last
\* message is a list; the except clause of the loop catches both and sleeps.
poll_step(tester, answer) ==
    IF answer = "success" THEN "return_true"
    ELSE IF answer \in CompletedOtherStatus
    THEN IF tester = "advanced"
              /\ answer \in {"error_list_message", "error_empty_messages"}
         THEN "sleep"
         ELSE "return_false"
    ELSE "sleep"

\* one iteration of the while loop: the poll, and the return or the sleep
wait_poll ==
    /\ source = "wait"
    /\ pc = "loop"
    /\ elapsed < req.timeout
    /\ \E answer \in PollAnswers, poll_seconds \in 0..MaxPollSeconds :
        LET step == poll_step(req.tester, answer)
        IN  /\ polls' = Append(polls, answer)
            /\ IF step = "sleep"
               THEN /\ elapsed' = elapsed + poll_seconds + SleepSeconds
                    /\ UNCHANGED <<pc, result, error>>
               ELSE /\ elapsed' = elapsed + poll_seconds
                    /\ pc' = "returned"
                    /\ result' = Outcome(step = "return_true")
                    /\ error' = IF step = "return_true" THEN ""
                                ELSE "execution error"
    /\ UNCHANGED <<source, req, call, ret, model_dir, segmented_models, seg_pos,
                   downloaded_files, model_files, file_pos, success,
                   downloaded_main_model, attempts, group_results, disk, sidecars,
                   api_calls>>
    /\ UNCHANGED cli_vars

\* the loop test fails: return False, "Timeout"
wait_timeout ==
    /\ source = "wait"
    /\ pc = "loop"
    /\ elapsed >= req.timeout
    /\ pc' = "returned"
    /\ result' = "failed"
    /\ error' = "Timeout"
    /\ UNCHANGED <<source, req, call, ret, model_dir, segmented_models, seg_pos,
                   downloaded_files, model_files, file_pos, success,
                   downloaded_main_model, attempts, group_results, disk, sidecars,
                   api_calls>>
    /\ UNCHANGED cli_vars
    /\ UNCHANGED wait_vars

InitWait ==
    /\ source = "wait"
    /\ req \in WaitRequests
    /\ pc = "loop"
    /\ request_idle
    /\ cli_idle
    /\ wait_idle
    /\ call = NoCall
    /\ ret = NoCall

NextWait ==
    \/ wait_poll
    \/ wait_timeout

SpecWait == InitWait /\ [][NextWait]_vars

\* the loop runs whenever it can: the process is not stopped and every poll
\* answers or raises
SpecWaitFair == SpecWait /\ WF_vars(NextWait)

\* every wait returns
WaitTerminates == source = "wait" => <>(pc = "returned")

\* C30: wait_for_completion returns success only if a poll showed the prompt
\* completed with status_str 'success', returns failure as soon as a poll
\* shows it completed with any other status, returns the timeout failure
\* only once the elapsed time has reached the timeout, and an error of a
\* poll never ends the wait.
C30_WaitOutcomes ==
    source = "wait" =>
        /\ (pc = "returned" /\ result = "ok")
            => (polls # <<>> /\ polls[Len(polls)] = "success")
        /\ \A i \in DOMAIN polls :
            polls[i] \in CompletedOtherStatus
                => (i = Len(polls) /\ pc = "returned" /\ result = "failed")
        /\ (pc = "returned" /\ error = "Timeout") => elapsed >= req.timeout
        /\ (pc = "returned" /\ polls # <<>> /\ polls[Len(polls)] \in {"raised", "http_error"})
            => (error = "Timeout" /\ elapsed >= req.timeout)

=============================================================================
